---- MODULE Spec2Model ----
(***************************************************************************)
(* Model of the VyPR online monitor for iCFTL specifications:              *)
(*   VyPR/Monitoring/online.py          the consumer loop and the queues   *)
(*   VyPR/Monitoring/formula_trees.py   FormulaTree                        *)
(*   VyPR/Specifications/constraints.py atoms, connectives, check          *)
(*                                                                         *)
(* Python objects that are shared by reference (FormulaTree instances) are *)
(* cells of `heap`; lists of them hold heap indices.  A raised exception   *)
(* is an explicit outcome (ok = FALSE) that ends the monitoring thread.    *)
(***************************************************************************)
EXTENDS Integers, Sequences, FiniteSets, TLC

VARIABLES
    specification,              \* the specification read by prepare_specification
    queue,                      \* OnlineMonitor.queue
    verdict_queue,              \* OnlineMonitor.verdict_queue
    heap,                       \* the FormulaTree objects created so far
    map_index_to_formula_trees, \* local of monitoring_process_function
    new_measurement,            \* the event the consumer took last
    monitoring_process,         \* state of the monitoring thread; in per-request
                                \* hosting, the thread of OnlineMonitor.monitoring_process
    registered,                 \* OnlineMonitor._map_index_to_formula_trees
    control,                    \* position of the thread calling the blocking operations
    now,                        \* datetime.datetime.now(), as a tick counter
    emitted                     \* number of events put by the instruments so far

\* The static analysis that precedes monitoring (VyPR/SCFG, VyPR/Instrumentation).
VARIABLES
    module_asts,                \* ModuleProcessor._module_asts: function name -> body
    function_name_to_scfg_map,  \* SCFGSearcher._function_name_to_scfg_map
    returned                    \* the call made last, with what it returned

VARIABLES
    _module_to_lines,           \* Instrument._module_to_lines, for the module of f
    locals,                     \* ts_start, ts_end and duration in the running f
    executed                    \* for each line of f run so far, when it ran

VARIABLES
    threads,                    \* the monitoring threads made by start_monitor
    requests                    \* the requests of the host: position and verdicts written

monitor_vars == <<specification, queue, verdict_queue, heap, map_index_to_formula_trees,
                  new_measurement, monitoring_process, registered, control, now, emitted>>

analysis_vars == <<module_asts, function_name_to_scfg_map, returned>>

instrument_vars == <<_module_to_lines, locals, executed>>

hosting_vars == <<threads, requests>>

vars == <<specification, queue, verdict_queue, heap, map_index_to_formula_trees,
          new_measurement, monitoring_process, registered, control, now, emitted,
          module_asts, function_name_to_scfg_map, returned,
          _module_to_lines, locals, executed, threads, requests>>

\* specification.get_variables() and the instantiated constraint of
\* specification.get_constraint().
variables == specification.variables
constraint == specification.constraint

----------------------------------------------------------------------------
(* Bounds of the model. *)

MaxEvents == 3      \* events put on the queue besides the stop signal
MaxQueue == 1       \* events of the instruments waiting on the queue at a time

\* The measurements: below, at and above the constant K of the atoms; 0 is
\* also the measurement Python takes for false.
Values == {0, 1, 2}

\* The map (binding) indices the instruments use.
MapIndices == {0, 1}

----------------------------------------------------------------------------
(* Formula configurations.  Python's True, False and None, atom objects    *)
(* and the three connectives.                                              *)

True == [t |-> "True"]
False == [t |-> "False"]
None == [t |-> "None"]

IsBool(obj) == obj = True \/ obj = False

\* An atom: its class, the expressions it is built from (x names them, so that
\* structural equality of atoms is equality of records), its constant, and
\* for each subatom the base variable of the subatom's expression.
Atom(cls, x, c, base) == [t |-> "atom", cls |-> cls, x |-> x, c |-> c, base |-> base]

Conjunction(conjuncts) == [t |-> "Conjunction", ops |-> conjuncts]
Disjunction(disjuncts) == [t |-> "Disjunction", ops |-> disjuncts]
Negation(operand) == [t |-> "Negation", ops |-> <<operand>>]

\* Classes with NormalAtom among their bases.
NormalAtom ==
    { "ValueLengthInConcreteStateLessThanConstant",
      "ValueLengthInConcreteStateGreaterThanConstant",
      "ValueLengthInConcreteStateEqualsConstant",
      "ValueInConcreteStateEqualsConstant",
      "ValueInConcreteStateLessThanConstant",
      "ValueInConcreteStateGreaterThanConstant",
      "DurationOfTransitionLessThanConstant" }

\* Classes with MixedAtom among their bases.
MixedAtom ==
    { "ValueLengthInConcreteStateLessThanTransitionDuration",
      "ValueLengthInConcreteStateGreaterThanTransitionDuration",
      "ValueLengthInConcreteStateEqualsTransitionDuration",
      "DurationOfTransitionLessThanValueInConcreteState",
      "TimeBetweenLessThanConstant" }

is_normal_atom(obj) == obj.t = "atom" /\ obj.cls \in NormalAtom
is_mixed_atom(obj) == obj.t = "atom" /\ obj.cls \in MixedAtom

\* Classes that define no check method.
NoCheck == { "ValueInConcreteStateGreaterThanConstant" }

\* Classes that define no get_expression method.
NoGetExpression == { "DurationOfTransitionLessThanValueInConcreteState" }

----------------------------------------------------------------------------
(* The measurement dictionary {atom index : {subatom index : measurement}}. *)
(* A Python dict iterates in insertion order, so the dictionary is the      *)
(* sequence of its <<atom index, subatom index, measurement>> entries in    *)
(* iteration order: grouped by atom index, atoms and subatoms in the order  *)
(* of their first insertion.                                                *)

HasAtomIndex(md, a) == \E n \in 1 .. Len(md) : md[n][1] = a
HasEntry(md, a, s) == \E n \in 1 .. Len(md) : md[n][1] = a /\ md[n][2] = s
Entry(md, a, s) == md[CHOOSE n \in 1 .. Len(md) : md[n][1] = a /\ md[n][2] = s][3]

\* measurement_dictionary[atom_index].get(s), judged as a condition:
\* a missing entry gives None, and None and 0 both count as false.
Truthy(md, a, s) == HasEntry(md, a, s) /\ Entry(md, a, s) # 0

\* A store in which the last write wins (not what the code does).
StoreLastWriteWins(md, a, s, v) ==
    IF HasEntry(md, a, s)
    THEN [n \in 1 .. Len(md) |->
            IF md[n][1] = a /\ md[n][2] = s THEN <<a, s, v>> ELSE md[n]]
    ELSE Append(md, <<a, s, v>>)

\* update_with_measurement, lines 113-117: the first write wins.
Store(md, a, s, v) ==
    IF HasEntry(md, a, s) THEN md
    ELSE IF HasAtomIndex(md, a)
    THEN LET last == CHOOSE n \in 1 .. Len(md) :
                        /\ md[n][1] = a
                        /\ \A m \in (n + 1) .. Len(md) : md[m][1] # a
         IN  SubSeq(md, 1, last) \o <<(<<a, s, v>>)>> \o SubSeq(md, last + 1, Len(md))
    ELSE Append(md, <<a, s, v>>)

----------------------------------------------------------------------------
(* The check methods of the atom classes.  The result is the value         *)
(* returned, or ok = FALSE when the call raises.                           *)

Returns(v) == [v |-> v, ok |-> TRUE]
Raises(v) == [v |-> v, ok |-> FALSE]
Bool(b) == IF b THEN True ELSE False
Abs(n) == IF n < 0 THEN 0 - n ELSE n

check(atom, atom_index, subatom_index, md) ==
    IF atom.cls \in NoCheck
    THEN \* AttributeError: the class has no attribute check
         Raises(atom)
    ELSE IF atom.cls \in NormalAtom
    THEN LET measurement == Entry(md, atom_index, subatom_index)
         IN  CASE atom.cls \in { "ValueLengthInConcreteStateLessThanConstant",
                                 "ValueInConcreteStateLessThanConstant",
                                 "DurationOfTransitionLessThanConstant" }
                    -> Returns(Bool(measurement < atom.c))
               [] atom.cls = "ValueLengthInConcreteStateGreaterThanConstant"
                    -> Returns(Bool(measurement > atom.c))
               [] atom.cls \in { "ValueLengthInConcreteStateEqualsConstant",
                                 "ValueInConcreteStateEqualsConstant" }
                    -> Returns(Bool(measurement = atom.c))
    ELSE IF Truthy(md, atom_index, 0) /\ Truthy(md, atom_index, 1)
    THEN LET m0 == Entry(md, atom_index, 0)
             m1 == Entry(md, atom_index, 1)
         IN  CASE atom.cls \in { "ValueLengthInConcreteStateLessThanTransitionDuration",
                                 "DurationOfTransitionLessThanValueInConcreteState" }
                    -> Returns(Bool(m0 < m1))
               [] atom.cls = "ValueLengthInConcreteStateGreaterThanTransitionDuration"
                    -> Returns(Bool(m0 > m1))
               [] atom.cls = "ValueLengthInConcreteStateEqualsTransitionDuration"
                    -> Returns(Bool(m0 = m1))
               [] atom.cls = "TimeBetweenLessThanConstant"
                    -> Returns(Bool(Abs(m1 - m0) < atom.c))
    ELSE IF atom.cls = "DurationOfTransitionLessThanValueInConcreteState"
    THEN Returns(None)
    ELSE Returns(atom)

----------------------------------------------------------------------------
(* Constraint.get_atomic_constraints: a depth-first traversal with a stack *)
(* whose top is the end of the list.                                       *)

RECURSIVE TraverseStack(_, _)
RECURSIVE TraverseStackFromFront(_, _)
\* A variant that takes the next object from the front of the list.
TraverseStackFromFront(stack, all_atomic_constraints) ==
    IF Len(stack) = 0 THEN all_atomic_constraints
    ELSE LET top == stack[1]
             rest == SubSeq(stack, 2, Len(stack))
         IN  IF top.t \in { "Conjunction", "Disjunction", "Negation" }
             THEN TraverseStackFromFront(top.ops \o rest, all_atomic_constraints)
             ELSE IF top.t = "atom"
             THEN TraverseStackFromFront(rest, Append(all_atomic_constraints, top))
             ELSE TraverseStackFromFront(rest, all_atomic_constraints)

TraverseStack(stack, all_atomic_constraints) ==
    IF Len(stack) = 0 THEN all_atomic_constraints
    ELSE LET top == stack[Len(stack)]
             rest == SubSeq(stack, 1, Len(stack) - 1)
         IN  IF top.t \in { "Conjunction", "Disjunction", "Negation" }
             THEN TraverseStack(rest \o top.ops, all_atomic_constraints)
             ELSE IF top.t = "atom"
             THEN TraverseStack(rest, Append(all_atomic_constraints, top))
             ELSE TraverseStack(rest, all_atomic_constraints)

get_atomic_constraints(instance) == TraverseStack(<<instance>>, <<>>)

\* self._atoms.index(current_obj): the first position (from 0) holding an
\* atom equal to current_obj.
IndexOf(atoms, obj) ==
    (CHOOSE n \in 1 .. Len(atoms) :
        atoms[n] = obj /\ \A m \in 1 .. (n - 1) : atoms[m] # obj) - 1

----------------------------------------------------------------------------
(* FormulaTree._recurse_on_tree.  The lists of conjuncts and disjuncts and *)
(* the operand of a negation are replaced in place, so when a call raises  *)
(* the node keeps the replacements made before the exception.              *)

Replace(ops, index, v) == [ops EXCEPT ![index] = v]

RECURSIVE recurse_on_tree(_, _, _, _, _)
RECURSIVE DisjunctionLoop(_, _, _, _, _, _)
RECURSIVE ConjunctionLoop(_, _, _, _, _, _, _)

\* Lines 159-173, from the disjunct at index on.
DisjunctionLoop(atoms, md, disjuncts, index, atom_index, subatom_index) ==
    IF index > Len(disjuncts) THEN Returns(Disjunction(disjuncts))
    ELSE LET r == recurse_on_tree(atoms, md, disjuncts[index], atom_index, subatom_index)
             replaced == Replace(disjuncts, index, r.v)
         IN  IF ~r.ok THEN Raises(Disjunction(replaced))
             ELSE IF r.v = True THEN Returns(True)
             ELSE DisjunctionLoop(atoms, md, replaced, index + 1, atom_index, subatom_index)

\* A conjunction that is replaced by True as soon as one conjunct is True,
\* as a disjunction is (not what the code does).
ConjunctionLoopAnyTrue(atoms, md, conjuncts, index, number_of_trues, atom_index, subatom_index) ==
    IF index > Len(conjuncts) THEN Returns(Conjunction(conjuncts))
    ELSE LET r == recurse_on_tree(atoms, md, conjuncts[index], atom_index, subatom_index)
             replaced == Replace(conjuncts, index, r.v)
         IN  IF ~r.ok THEN Raises(Conjunction(replaced))
             ELSE IF r.v = False THEN Returns(False)
             ELSE IF r.v = True THEN Returns(True)
             ELSE ConjunctionLoop(atoms, md, replaced, index + 1, number_of_trues,
                                  atom_index, subatom_index)

\* Lines 177-204, from the conjunct at index on.
ConjunctionLoop(atoms, md, conjuncts, index, number_of_trues, atom_index, subatom_index) ==
    IF index > Len(conjuncts)
    THEN IF number_of_trues = Len(conjuncts) THEN Returns(True)
         ELSE Returns(Conjunction(conjuncts))
    ELSE LET r == recurse_on_tree(atoms, md, conjuncts[index], atom_index, subatom_index)
             replaced == Replace(conjuncts, index, r.v)
         IN  IF ~r.ok THEN Raises(Conjunction(replaced))
             ELSE IF r.v = False THEN Returns(False)
             ELSE ConjunctionLoop(atoms, md, replaced, index + 1,
                                  IF r.v = True THEN number_of_trues + 1
                                  ELSE number_of_trues,
                                  atom_index, subatom_index)

\* Lines 207-220.
NegationCase(atoms, md, current_obj, atom_index, subatom_index) ==
    LET r == recurse_on_tree(atoms, md, current_obj.ops[1], atom_index, subatom_index)
    IN  IF ~r.ok THEN Raises(Negation(r.v))
        ELSE IF r.v = True THEN Returns(False)
        ELSE IF r.v = False THEN Returns(True)
        ELSE Returns(Negation(r.v))

recurse_on_tree(atoms, md, current_obj, atom_index, subatom_index) ==
    IF is_normal_atom(current_obj) \/ is_mixed_atom(current_obj)
    THEN IF IndexOf(atoms, current_obj) = atom_index
         THEN check(current_obj, atom_index, subatom_index, md)
         ELSE Returns(current_obj)
    ELSE IF current_obj.t = "Disjunction"
    THEN DisjunctionLoop(atoms, md, current_obj.ops, 1, atom_index, subatom_index)
    ELSE IF current_obj.t = "Conjunction"
    THEN ConjunctionLoop(atoms, md, current_obj.ops, 1, 0, atom_index, subatom_index)
    ELSE IF current_obj.t = "Negation"
    THEN NegationCase(atoms, md, current_obj, atom_index, subatom_index)
    ELSE Returns(current_obj)

----------------------------------------------------------------------------
(* FormulaTree objects: the timestamps of the binding, the configuration   *)
(* and the measurement dictionary.  _atoms and _variables come from the    *)
(* specification and never change.                                         *)

FormulaTree(timestamps, formula_tree, md) ==
    [timestamps |-> timestamps, formula_tree |-> formula_tree,
     measurement_dictionary |-> md]

\* An update that recurses on a fresh instance of the constraint instead of
\* the current configuration (not what the code does).
update_with_measurementFresh(atoms, ft, measurement, atom_index, subatom_index) ==
    LET md == Store(ft.measurement_dictionary, atom_index, subatom_index, measurement)
        r == recurse_on_tree(atoms, md, constraint, atom_index, subatom_index)
    IN  [v |-> FormulaTree(ft.timestamps, r.v, md), ok |-> r.ok]

\* FormulaTree.update_with_measurement: the object after the call, and
\* whether the call returned.
update_with_measurement(atoms, ft, measurement, atom_index, subatom_index) ==
    LET md == Store(ft.measurement_dictionary, atom_index, subatom_index, measurement)
        r == recurse_on_tree(atoms, md, ft.formula_tree, atom_index, subatom_index)
    IN  [v |-> FormulaTree(ft.timestamps, r.v, md), ok |-> r.ok]

\* FormulaTree.__init__, lines 53-60: the loop that replays the entries of
\* the dictionary given, in its iteration order.
RECURSIVE ReplayLoop(_, _, _)
ReplayLoop(atoms, ft, n) ==
    IF n > Len(ft.measurement_dictionary) THEN Returns(ft)
    ELSE LET e == ft.measurement_dictionary[n]
             r == update_with_measurement(atoms, ft, e[3], e[1], e[2])
         IN  IF ~r.ok THEN r ELSE ReplayLoop(atoms, r.v, n + 1)

\* FormulaTree.__init__(timestamps, constraint, variables, measurement_dictionary),
\* with instance the result of constraint.instantiate().
NewFormulaTree(timestamps, instance, md) ==
    ReplayLoop(get_atomic_constraints(instance),
               FormulaTree(timestamps, instance, md), 1)

\* self._variables.index(get_base_variable(atom.get_expression(index)).get_name()):
\* a normal atom has one expression, whatever the index.
base_variable(atom, subatom_index) ==
    IF atom.cls \in NormalAtom THEN atom.base[1] ELSE atom.base[subatom_index + 1]

\* FormulaTree.get_measurements_for_variable_index: the entries whose
\* subatom has a base variable before variable_index, in iteration order.
RECURSIVE FilterLoop(_, _, _, _, _)
FilterLoop(atoms, md, variable_index, n, final_dictionary) ==
    IF n > Len(md) THEN Returns(final_dictionary)
    ELSE LET e == md[n]
             relevant_atom == atoms[e[1] + 1]
         IN  IF relevant_atom.cls \in NoGetExpression
             THEN \* AttributeError: the class has no attribute get_expression
                  Raises(final_dictionary)
             ELSE FilterLoop(atoms, md, variable_index, n + 1,
                    IF base_variable(relevant_atom, e[2]) < variable_index
                    THEN Append(final_dictionary, e)
                    ELSE final_dictionary)

\* A selection that keeps every entry, whatever its base variable (not what
\* the code does).
get_measurements_for_variable_indexAll(atoms, ft, variable_index) ==
    Returns(ft.measurement_dictionary)

get_measurements_for_variable_index(atoms, ft, variable_index) ==
    FilterLoop(atoms, ft.measurement_dictionary, variable_index, 1, <<>>)

----------------------------------------------------------------------------
(* The specifications monitored.  q is the variable of the first           *)
(* quantifier (position 0) and t, when there is one, that of the second.   *)

K == 1  \* the constant every atom compares with

q_a_lt == Atom("ValueInConcreteStateLessThanConstant", "q(a)", K, <<0>>)
q_a_gt == Atom("ValueInConcreteStateGreaterThanConstant", "q(a)", K, <<0>>)
q_a_eq == Atom("ValueInConcreteStateEqualsConstant", "q(a)", K, <<0>>)
q_len_lt == Atom("ValueLengthInConcreteStateLessThanConstant", "q(a).length()", K, <<0>>)
q_len_gt == Atom("ValueLengthInConcreteStateGreaterThanConstant", "q(a).length()", K, <<0>>)
q_len_eq == Atom("ValueLengthInConcreteStateEqualsConstant", "q(a).length()", K, <<0>>)
t_dur_lt == Atom("DurationOfTransitionLessThanConstant", "t.duration()", K, <<1>>)
len_lt_dur == Atom("ValueLengthInConcreteStateLessThanTransitionDuration",
                   "q(a).length(), t.duration()", K, <<0, 1>>)
len_gt_dur == Atom("ValueLengthInConcreteStateGreaterThanTransitionDuration",
                   "q(a).length(), q.next(calls(f)).duration()", K, <<0, 0>>)
len_eq_dur == Atom("ValueLengthInConcreteStateEqualsTransitionDuration",
                   "q(a).length(), q.next(calls(f)).duration()", K, <<0, 0>>)
dur_lt_q_a == Atom("DurationOfTransitionLessThanValueInConcreteState",
                   "t.duration(), q(a)", K, <<1, 0>>)
time_between == Atom("TimeBetweenLessThanConstant", "timeBetween(q, t.before())", K, <<0, 1>>)

Specification(names, instance) == [variables |-> names, constraint |-> instance]

Specifications ==
    { Specification(<<"q">>, q_a_lt),
      Specification(<<"q">>, q_a_gt),
      Specification(<<"q">>, Negation(q_len_eq)),
      Specification(<<"q">>, Disjunction(<<q_a_eq, q_len_gt>>)),
      Specification(<<"q", "t">>, Conjunction(<<q_len_lt, t_dur_lt>>)),
      Specification(<<"q", "t">>, len_lt_dur),
      Specification(<<"q">>, len_gt_dur),
      Specification(<<"q">>, len_eq_dur),
      Specification(<<"q", "t">>, dur_lt_q_a),
      Specification(<<"q", "t">>, time_between),
      Specification(<<"q">>, Conjunction(<<Disjunction(<<q_a_lt, q_len_gt>>),
                                           Negation(q_a_eq)>>)) }

atoms == get_atomic_constraints(constraint)

\* variables.index(name)
variable_index_of(name) == (CHOOSE n \in 1 .. Len(variables) : variables[n] = name) - 1

\* The subatom indices the instruments of an atom use.
SubatomIndices(atom) == IF atom.cls \in NormalAtom THEN {0} ELSE {0, 1}

----------------------------------------------------------------------------
(* Events on OnlineMonitor.queue.                                          *)

Trigger(map_index, variable) ==
    [type |-> "trigger", map_index |-> map_index, variable |-> variable]
Measurement(map_index, atom_index, subatom_index, measurement) ==
    [type |-> "measurement", map_index |-> map_index, atom_index |-> atom_index,
     subatom_index |-> subatom_index, measurement |-> measurement]
StopSignal == [type |-> "stop_signal"]
GetIntermediateVerdicts == [type |-> "get_intermediate_verdicts"]
NoEvent == [type |-> "none"]

EmptyDict == <<>>

\* No call of the analysis has been made.
NoCall == [op |-> "none"]

\* The names the instruments assign in f; 0 is a name not bound yet (the
\* clock starts at 1).
NoLocals == [ts_start |-> 0, ts_end |-> 0, duration |-> 0]

Init ==
    /\ specification \in Specifications
    /\ queue = <<>>
    /\ verdict_queue = <<>>
    /\ heap = <<>>
    /\ map_index_to_formula_trees = EmptyDict
    /\ new_measurement = NoEvent
    /\ monitoring_process = "running"
    /\ registered = EmptyDict
    /\ control = "idle"
    /\ now = 1
    /\ emitted = 0
    /\ module_asts = EmptyDict
    /\ function_name_to_scfg_map = EmptyDict
    /\ returned = NoCall
    /\ _module_to_lines = EmptyDict
    /\ locals = NoLocals
    /\ executed = <<>>
    /\ threads = <<>>
    /\ requests = EmptyDict

----------------------------------------------------------------------------
(* The producers: OnlineMonitor.send_trigger and send_measurement, called  *)
(* by the instruments on the threads of the monitored program.             *)

send_trigger(map_index, variable) ==
    /\ control \in {"idle", "collecting"}
    /\ emitted < MaxEvents
    /\ Len(queue) < MaxQueue
    /\ queue' = Append(queue, Trigger(map_index, variable))
    /\ emitted' = emitted + 1
    /\ UNCHANGED <<specification, verdict_queue, heap, map_index_to_formula_trees,
                   new_measurement, monitoring_process, registered, control, now>>
    /\ UNCHANGED analysis_vars
    /\ UNCHANGED instrument_vars
    /\ UNCHANGED hosting_vars

send_measurement(map_index, atom_index, subatom_index, measurement) ==
    /\ control \in {"idle", "collecting"}
    /\ emitted < MaxEvents
    /\ Len(queue) < MaxQueue
    /\ queue' = Append(queue, Measurement(map_index, atom_index, subatom_index, measurement))
    /\ emitted' = emitted + 1
    /\ UNCHANGED <<specification, verdict_queue, heap, map_index_to_formula_trees,
                   new_measurement, monitoring_process, registered, control, now>>
    /\ UNCHANGED analysis_vars
    /\ UNCHANGED instrument_vars
    /\ UNCHANGED hosting_vars

----------------------------------------------------------------------------
(* The blocking operations, called by one control thread.                  *)

\* send_verdict_collection_signal, line 324: the put.
send_verdict_collection_signal ==
    /\ control = "idle"
    /\ emitted < MaxEvents
    /\ queue' = Append(queue, GetIntermediateVerdicts)
    /\ emitted' = emitted + 1
    /\ control' = "collecting"
    /\ UNCHANGED <<specification, verdict_queue, heap, map_index_to_formula_trees,
                   new_measurement, monitoring_process, registered, now>>
    /\ UNCHANGED analysis_vars
    /\ UNCHANGED instrument_vars
    /\ UNCHANGED hosting_vars

\* end_monitoring, line 330: the put.
end_monitoring ==
    /\ control = "idle"
    /\ queue' = Append(queue, StopSignal)
    /\ control' = "joining"
    /\ UNCHANGED <<specification, verdict_queue, heap, map_index_to_formula_trees,
                   new_measurement, monitoring_process, registered, now, emitted>>
    /\ UNCHANGED analysis_vars
    /\ UNCHANGED instrument_vars
    /\ UNCHANGED hosting_vars

\* end_monitoring, lines 332-334: join returns once the thread has ended,
\* however it ended.
join ==
    /\ control = "joining"
    /\ monitoring_process # "running"
    /\ control' = "registering"
    /\ UNCHANGED <<specification, queue, verdict_queue, heap, map_index_to_formula_trees,
                   new_measurement, monitoring_process, registered, now, emitted>>
    /\ UNCHANGED analysis_vars
    /\ UNCHANGED instrument_vars
    /\ UNCHANGED hosting_vars

\* register_verdicts: verdict_queue.get() blocks while the queue is empty.
register_verdicts ==
    /\ control \in {"collecting", "registering"}
    /\ verdict_queue # <<>>
    /\ registered' = Head(verdict_queue)
    /\ verdict_queue' = Tail(verdict_queue)
    /\ control' = IF control = "collecting" THEN "idle" ELSE "ended"
    /\ UNCHANGED <<specification, queue, heap, map_index_to_formula_trees,
                   new_measurement, monitoring_process, now, emitted>>
    /\ UNCHANGED analysis_vars
    /\ UNCHANGED instrument_vars
    /\ UNCHANGED hosting_vars

----------------------------------------------------------------------------
(* The consumer: one iteration of the loop of monitoring_process_function. *)

\* The dictionary built at lines 51-55 and 152-156: new lists of the same
\* FormulaTree objects.
final_map_index_to_formulas_map ==
    [map_index \in DOMAIN map_index_to_formula_trees |->
        map_index_to_formula_trees[map_index]]

\* queue.get() blocks while the queue is empty.
CanGet == monitoring_process = "running" /\ queue # <<>>

Get ==
    /\ new_measurement' = Head(queue)
    /\ queue' = Tail(queue)

\* Lines 43-47 and, the loop left, 150-162.
ProcessStopSignal ==
    /\ CanGet /\ Head(queue).type = "stop_signal"
    /\ Get
    /\ verdict_queue' = Append(verdict_queue, final_map_index_to_formulas_map)
    /\ monitoring_process' = "finished"
    /\ UNCHANGED <<specification, heap, map_index_to_formula_trees, registered,
                   control, now, emitted>>
    /\ UNCHANGED analysis_vars
    /\ UNCHANGED instrument_vars
    /\ UNCHANGED hosting_vars

\* Lines 48-58.
ProcessGetIntermediateVerdicts ==
    /\ CanGet /\ Head(queue).type = "get_intermediate_verdicts"
    /\ Get
    /\ verdict_queue' = Append(verdict_queue, final_map_index_to_formulas_map)
    /\ UNCHANGED <<specification, heap, map_index_to_formula_trees, monitoring_process,
                   registered, control, now, emitted>>
    /\ UNCHANGED analysis_vars
    /\ UNCHANGED instrument_vars
    /\ UNCHANGED hosting_vars

\* Lines 73-75: map_index_to_formula_trees.get(map_index) is None or [].
WithKey(dict, map_index) ==
    IF map_index \in DOMAIN dict /\ dict[map_index] # <<>> THEN dict
    ELSE [m \in DOMAIN dict \cup {map_index} |-> IF m = map_index THEN <<>> ELSE dict[m]]

\* Lines 103-123: the loop over the list under map_index, which the loop
\* itself appends to.  h is the heap and trees the list so far.
RECURSIVE ExtendLoop(_, _, _, _, _)
\* A loop that also extends the complete bindings (not what the code does).
ExtendLoopComplete(h, trees, n, variable_index, trigger_timestamp) ==
    IF n > Len(trees) THEN [heap |-> h, trees |-> trees, ok |-> TRUE]
    ELSE IF Len(h[trees[n]].timestamps) \in {variable_index, Len(variables)}
    THEN LET extended_formula_tree ==
                 NewFormulaTree(Append(h[trees[n]].timestamps, trigger_timestamp),
                                constraint, <<>>)
         IN  ExtendLoop(Append(h, extended_formula_tree.v), Append(trees, Len(h) + 1),
                        n + 1, variable_index, trigger_timestamp)
    ELSE ExtendLoop(h, trees, n + 1, variable_index, trigger_timestamp)

ExtendLoop(h, trees, n, variable_index, trigger_timestamp) ==
    IF n > Len(trees) THEN [heap |-> h, trees |-> trees, ok |-> TRUE]
    ELSE LET formula_tree == h[trees[n]]
             timestamps == formula_tree.timestamps
         IN  IF Len(timestamps) = variable_index
             THEN LET extended_timestamp_sequence == Append(timestamps, trigger_timestamp)
                      measurements ==
                          get_measurements_for_variable_index(atoms, formula_tree, variable_index)
                      extended_formula_tree ==
                          NewFormulaTree(extended_timestamp_sequence, constraint, measurements.v)
                  IN  IF ~measurements.ok \/ ~extended_formula_tree.ok
                      THEN [heap |-> h, trees |-> trees, ok |-> FALSE]
                      ELSE ExtendLoop(Append(h, extended_formula_tree.v),
                                      Append(trees, Len(h) + 1),
                                      n + 1, variable_index, trigger_timestamp)
             ELSE ExtendLoop(h, trees, n + 1, variable_index, trigger_timestamp)

\* Lines 59-123.
ProcessTrigger ==
    /\ CanGet /\ Head(queue).type = "trigger"
    /\ Get
    /\ LET trigger_timestamp == now
           variable_index == variable_index_of(Head(queue).variable)
           map_index == Head(queue).map_index
           dict == WithKey(map_index_to_formula_trees, map_index)
       IN  IF variable_index = 0
           THEN LET new_formula_tree == NewFormulaTree(<<trigger_timestamp>>, constraint, <<>>)
                IN  /\ heap' = Append(heap, new_formula_tree.v)
                    /\ map_index_to_formula_trees' =
                          [dict EXCEPT ![map_index] = Append(@, Len(heap) + 1)]
                    /\ monitoring_process' = monitoring_process
           ELSE LET r == ExtendLoop(heap, dict[map_index], 1, variable_index, trigger_timestamp)
                IN  /\ heap' = r.heap
                    /\ map_index_to_formula_trees' = [dict EXCEPT ![map_index] = r.trees]
                    /\ monitoring_process' = IF r.ok THEN "running" ELSE "crashed"
    /\ now' = now + 1
    /\ UNCHANGED <<specification, verdict_queue, registered, control, emitted>>
    /\ UNCHANGED analysis_vars
    /\ UNCHANGED instrument_vars
    /\ UNCHANGED hosting_vars

\* Lines 145-148: the loop over the list under map_index.
RECURSIVE UpdateLoop(_, _, _, _, _, _)
UpdateLoop(h, trees, n, measurement, atom_index, subatom_index) ==
    IF n > Len(trees) THEN [heap |-> h, ok |-> TRUE]
    ELSE LET r == update_with_measurement(atoms, h[trees[n]], measurement,
                                          atom_index, subatom_index)
             updated == [h EXCEPT ![trees[n]] = r.v]
         IN  IF ~r.ok THEN [heap |-> updated, ok |-> FALSE]
             ELSE UpdateLoop(updated, trees, n + 1, measurement, atom_index, subatom_index)

\* Lines 125-148.
ProcessMeasurement ==
    /\ CanGet /\ Head(queue).type = "measurement"
    /\ Get
    /\ LET e == Head(queue)
       IN  IF e.map_index \notin DOMAIN map_index_to_formula_trees
           THEN \* KeyError at line 142
                /\ heap' = heap
                /\ monitoring_process' = "crashed"
           ELSE LET r == UpdateLoop(heap, map_index_to_formula_trees[e.map_index], 1,
                                    e.measurement, e.atom_index, e.subatom_index)
                IN  /\ heap' = r.heap
                    /\ monitoring_process' = IF r.ok THEN "running" ELSE "crashed"
    /\ UNCHANGED <<specification, verdict_queue, map_index_to_formula_trees, registered,
                   control, now, emitted>>
    /\ UNCHANGED analysis_vars
    /\ UNCHANGED instrument_vars
    /\ UNCHANGED hosting_vars

----------------------------------------------------------------------------

Next ==
    \/ \E map_index \in MapIndices, n \in 1 .. Len(variables) :
          send_trigger(map_index, variables[n])
    \/ \E map_index \in MapIndices, a \in 1 .. Len(atoms), measurement \in Values :
          \E subatom_index \in SubatomIndices(atoms[a]) :
             send_measurement(map_index, a - 1, subatom_index, measurement)
    \/ send_verdict_collection_signal
    \/ end_monitoring
    \/ join
    \/ register_verdicts
    \/ ProcessStopSignal
    \/ ProcessGetIntermediateVerdicts
    \/ ProcessTrigger
    \/ ProcessMeasurement

Spec == Init /\ [][Next]_vars

----------------------------------------------------------------------------
(* Positions in a configuration: the path of operand numbers from the root. *)
(* A position below a node that has been replaced by a truth value is gone. *)

Gone == [t |-> "gone"]

RECURSIVE ValueAt(_, _)
ValueAt(obj, path) ==
    IF path = <<>> THEN obj
    ELSE IF obj.t \in { "Conjunction", "Disjunction", "Negation" } /\ path[1] <= Len(obj.ops)
    THEN ValueAt(obj.ops[path[1]], Tail(path))
    ELSE Gone

RECURSIVE PathsOf(_)
PathsOf(obj) ==
    IF obj.t \in { "Conjunction", "Disjunction", "Negation" }
    THEN {<<>>} \cup UNION { { <<n>> \o p : p \in PathsOf(obj.ops[n]) } : n \in 1 .. Len(obj.ops) }
    ELSE {<<>>}

\* The positions of the constraint of the specification, and those of them
\* that hold a node of a given kind.
Positions == PathsOf(constraint)
PositionsOf(kind) == { p \in Positions : ValueAt(constraint, p).t = kind }

ProperPrefixes(path) == { SubSeq(path, 1, n) : n \in 0 .. (Len(path) - 1) }

\* The node at the position is still part of the configuration.
Present(formula_tree, path) == ValueAt(formula_tree, path) # Gone

\* The formula trees, as indices of heap.
FormulaTrees == 1 .. Len(heap)

\* The consumer takes an event of the given type in this step.
Consumes(type) ==
    /\ monitoring_process = "running"
    /\ queue # <<>>
    /\ Head(queue).type = type
    /\ queue' = Tail(queue)

----------------------------------------------------------------------------
(* C1: formula configurations are monotone.  In every step and for every   *)
(* formula tree, a position of the configuration that holds True or False  *)
(* holds the same value after the step, unless a node above it has been    *)
(* replaced by a truth value (the position is then no longer part of the   *)
(* configuration).                                                         *)

Monotone(before, after) ==
    \A p \in Positions :
        IsBool(ValueAt(before, p)) =>
            \/ ValueAt(after, p) = ValueAt(before, p)
            \/ \E above \in ProperPrefixes(p) : IsBool(ValueAt(after, above))

C1_Monotone ==
    [][\A ft \in FormulaTrees :
          Monotone(heap[ft].formula_tree, heap'[ft].formula_tree)]_vars

\* A formula tree whose configuration has a truth value at a position has
\* just been given a further measurement: one for a pair it has recorded
\* with another value.
C1_Witness ==
    /\ new_measurement.type = "measurement"
    /\ new_measurement.map_index \in DOMAIN map_index_to_formula_trees
    /\ \E n \in 1 .. Len(map_index_to_formula_trees[new_measurement.map_index]) :
          LET ft == heap[map_index_to_formula_trees[new_measurement.map_index][n]]
          IN  /\ \E p \in Positions : IsBool(ValueAt(ft.formula_tree, p))
              /\ HasEntry(ft.measurement_dictionary,
                          new_measurement.atom_index, new_measurement.subatom_index)
              /\ Entry(ft.measurement_dictionary, new_measurement.atom_index,
                       new_measurement.subatom_index) # new_measurement.measurement

----------------------------------------------------------------------------
(* C2: an Or configuration is true as soon as one disjunct is true and     *)
(* false once all its disjuncts are false.  So no configuration holds a    *)
(* Disjunction with a True disjunct, or one whose disjuncts are all False. *)

C2_Or ==
    \A ft \in FormulaTrees : \A p \in PositionsOf("Disjunction") :
        LET node == ValueAt(heap[ft].formula_tree, p)
        IN  node.t = "Disjunction" =>
                /\ \A n \in 1 .. Len(node.ops) : node.ops[n] # True
                /\ \E n \in 1 .. Len(node.ops) : node.ops[n] # False

----------------------------------------------------------------------------
(* The value of a formula over a measurement dictionary: that of an atom   *)
(* is what its check returns once its entries are recorded, those of the   *)
(* connectives follow three-valued logic.  Pending is any value other than *)
(* True and False.                                                         *)

Pending == [t |-> "pending"]

AtomValue(atom, md) ==
    LET atom_index == IndexOf(atoms, atom)
    IN  IF atom.cls \in NoCheck THEN Pending
        ELSE IF \A s \in SubatomIndices(atom) : HasEntry(md, atom_index, s)
        THEN check(atom, atom_index, 0, md).v
        ELSE Pending

RECURSIVE Val(_, _)
Val(obj, md) ==
    IF obj.t = "atom" THEN AtomValue(obj, md)
    ELSE LET vals == [n \in 1 .. Len(obj.ops) |-> Val(obj.ops[n], md)]
         IN  CASE obj.t = "Conjunction" ->
                    IF \E n \in 1 .. Len(vals) : vals[n] = False THEN False
                    ELSE IF \A n \in 1 .. Len(vals) : vals[n] = True THEN True
                    ELSE Pending
               [] obj.t = "Disjunction" ->
                    IF \E n \in 1 .. Len(vals) : vals[n] = True THEN True
                    ELSE IF \A n \in 1 .. Len(vals) : vals[n] = False THEN False
                    ELSE Pending
               [] obj.t = "Negation" ->
                    IF vals[1] = True THEN False
                    ELSE IF vals[1] = False THEN True
                    ELSE Pending

----------------------------------------------------------------------------
(* C3: an And configuration is false as soon as a conjunct has evaluated   *)
(* to false and true exactly when all conjuncts have evaluated to true,    *)
(* whichever events resolved them, and once false it stays false.  After   *)
(* every step: an And that is still in a configuration has no False        *)
(* conjunct and not only True conjuncts; one replaced by True has all its  *)
(* conjuncts true over the measurements recorded; one replaced by False    *)
(* has a false conjunct; and one that was False before the step still is.  *)

AndSettled(ft) ==
    \A p \in PositionsOf("Conjunction") :
        LET node == ValueAt(ft.formula_tree, p)
            conjuncts == ValueAt(constraint, p).ops
            md == ft.measurement_dictionary
        IN  /\ node.t = "Conjunction" =>
                /\ \A n \in 1 .. Len(node.ops) : node.ops[n] # False
                /\ \E n \in 1 .. Len(node.ops) : node.ops[n] # True
            /\ node = True => \A n \in 1 .. Len(conjuncts) : Val(conjuncts[n], md) = True
            /\ node = False => \E n \in 1 .. Len(conjuncts) : Val(conjuncts[n], md) = False

AndStaysFalse(before, after) ==
    \A p \in PositionsOf("Conjunction") :
        ValueAt(before, p) = False =>
            \/ ValueAt(after, p) = False
            \/ \E above \in ProperPrefixes(p) : IsBool(ValueAt(after, above))

C3_And ==
    [][/\ \A ft \in 1 .. Len(heap') : AndSettled(heap'[ft])
       /\ \A ft \in FormulaTrees :
             AndStaysFalse(heap[ft].formula_tree, heap'[ft].formula_tree)]_vars

\* An And has become True with its conjuncts resolved by the measurements of
\* two atoms, hence by two events.
C3_Witness ==
    \E ft \in FormulaTrees : \E p \in PositionsOf("Conjunction") :
        /\ ValueAt(heap[ft].formula_tree, p) = True
        /\ \E m, n \in 1 .. Len(heap[ft].measurement_dictionary) :
              heap[ft].measurement_dictionary[m][1] # heap[ft].measurement_dictionary[n][1]

----------------------------------------------------------------------------
(* C4: delivery is idempotent and the first write wins.  When the consumer *)
(* processes a measurement, every formula tree under its map index that    *)
(* has the pair (atom index, subatom index) recorded is left as it was:    *)
(* same measurement dictionary, same configuration.                        *)

C4_Idempotent ==
    [][Consumes("measurement") /\ Head(queue).map_index \in DOMAIN map_index_to_formula_trees =>
          LET e == Head(queue)
              trees == map_index_to_formula_trees[e.map_index]
          IN  \A n \in 1 .. Len(trees) :
                 HasEntry(heap[trees[n]].measurement_dictionary, e.atom_index, e.subatom_index)
                    => heap'[trees[n]] = heap[trees[n]]]_vars

\* The consumer has processed a measurement for a pair that a formula tree
\* under that map index holds with another value.
C4_Witness ==
    /\ new_measurement.type = "measurement"
    /\ monitoring_process = "running"
    /\ new_measurement.map_index \in DOMAIN map_index_to_formula_trees
    /\ \E n \in 1 .. Len(map_index_to_formula_trees[new_measurement.map_index]) :
          LET md == heap[map_index_to_formula_trees[new_measurement.map_index][n]].measurement_dictionary
          IN  /\ HasEntry(md, new_measurement.atom_index, new_measurement.subatom_index)
              /\ Entry(md, new_measurement.atom_index, new_measurement.subatom_index)
                    # new_measurement.measurement

----------------------------------------------------------------------------
(* C5: an atom whose measurements have all been received is resolved.  For *)
(* every formula tree and every atom of the constraint: when the tree has  *)
(* recorded every entry the atom requires (subatom 0 for a normal atom,    *)
(* subatoms 0 and 1 for a mixed atom), the atom's position holds True or   *)
(* False (or a node above it has been replaced by a truth value), and the  *)
(* consumer has not died on a measurement for the key of the tree.         *)

AllRecorded(ft, atom) ==
    \A s \in SubatomIndices(atom) :
        HasEntry(ft.measurement_dictionary, IndexOf(atoms, atom), s)

DiedOnMeasurementFor(ft) ==
    /\ monitoring_process = "crashed"
    /\ new_measurement.type = "measurement"
    /\ new_measurement.map_index \in DOMAIN map_index_to_formula_trees
    /\ \E n \in 1 .. Len(map_index_to_formula_trees[new_measurement.map_index]) :
          map_index_to_formula_trees[new_measurement.map_index][n] = ft

C5_Resolved ==
    \A ft \in FormulaTrees : \A p \in PositionsOf("atom") :
        AllRecorded(heap[ft], ValueAt(constraint, p)) =>
            /\ \/ IsBool(ValueAt(heap[ft].formula_tree, p))
               \/ \E above \in ProperPrefixes(p) : IsBool(ValueAt(heap[ft].formula_tree, above))
            /\ ~DiedOnMeasurementFor(ft)

----------------------------------------------------------------------------
(* C6: a mixed atom with one of its two measurements stays pending.  For   *)
(* every formula tree and every mixed atom of the constraint: while the    *)
(* tree has recorded exactly one of the entries (a, 0) and (a, 1), the     *)
(* atom's position holds the atom itself, which is what check returned     *)
(* (unless a node above it has been replaced by a truth value).            *)

OneRecorded(ft, atom) ==
    LET a == IndexOf(atoms, atom)
    IN  HasEntry(ft.measurement_dictionary, a, 0) # HasEntry(ft.measurement_dictionary, a, 1)

C6_MixedPending ==
    \A ft \in FormulaTrees : \A p \in PositionsOf("atom") :
        LET atom == ValueAt(constraint, p)
        IN  is_mixed_atom(atom) /\ OneRecorded(heap[ft], atom) =>
                \/ ValueAt(heap[ft].formula_tree, p) = atom
                \/ \E above \in ProperPrefixes(p) : IsBool(ValueAt(heap[ft].formula_tree, above))

----------------------------------------------------------------------------
(* C7: after a stop request the consumer terminates, puts a final verdict  *)
(* snapshot on the verdict channel and end_monitoring returns.  A state    *)
(* that refutes it is one in which it can no longer happen: end_monitoring *)
(* has joined the consumer thread and is at its verdict_queue.get(), the   *)
(* channel is empty and no thread is left to put anything on it.  So: when *)
(* end_monitoring is past the join, the verdict channel is not empty.      *)

C7_StopReturns ==
    control = "registering" => verdict_queue # <<>>

----------------------------------------------------------------------------
(* C8: a measurement for a map index under which no formula tree exists is *)
(* not an error.  When the event the consumer has taken last is a          *)
(* measurement whose map_index is not a key of map_index_to_formula_trees, *)
(* the consumer is running, ready for the events that follow.              *)

C8_UnknownIndexIgnored ==
    /\ new_measurement.type = "measurement"
    /\ new_measurement.map_index \notin DOMAIN map_index_to_formula_trees
    => monitoring_process = "running"

----------------------------------------------------------------------------
(* C9: a delivered snapshot is fixed.  What the caller sees through the    *)
(* snapshot it has registered (for every map index the formula trees       *)
(* listed, each with its timestamps, configuration and measurements) is    *)
(* the same after every step that does not register another snapshot.      *)

Visible(snapshot, h) ==
    [map_index \in DOMAIN snapshot |->
        [n \in 1 .. Len(snapshot[map_index]) |-> h[snapshot[map_index][n]]]]

C9_SnapshotFixed ==
    [][registered' = registered => Visible(registered', heap') = Visible(registered, heap)]_vars

----------------------------------------------------------------------------
(* C10: a trigger for the variable at position k > 0 extends the bindings  *)
(* of length k.  In every step in which the consumer takes such a trigger  *)
(* for map index i: every formula tree that existed is unchanged; the list *)
(* under i keeps its elements and is followed by one new formula tree for  *)
(* each of them with k timestamps, with the timestamps of that one and the *)
(* time of the trigger appended, and by nothing else; the lists under the  *)
(* other map indices are unchanged.                                        *)

ListUnder(dict, map_index) ==
    IF map_index \in DOMAIN dict THEN dict[map_index] ELSE <<>>

Extended(before, after, h, h2, k, trigger_timestamp) ==
    LET originals == { n \in 1 .. Len(before) : Len(h[before[n]].timestamps) = k }
        clones == (Len(before) + 1) .. Len(after)
    IN  /\ Len(after) >= Len(before)
        /\ SubSeq(after, 1, Len(before)) = before
        /\ Len(after) = Len(before) + Cardinality(originals)
        /\ \A n \in originals :
              Cardinality({ m \in clones :
                  h2[after[m]].timestamps =
                      Append(h[before[n]].timestamps, trigger_timestamp) }) = 1

TriggerExtends ==
    Consumes("trigger") /\ variable_index_of(Head(queue).variable) > 0 =>
        LET map_index == Head(queue).map_index
        IN  /\ \A ft \in FormulaTrees : heap'[ft] = heap[ft]
            /\ Extended(ListUnder(map_index_to_formula_trees, map_index),
                        ListUnder(map_index_to_formula_trees', map_index),
                        heap, heap',
                        variable_index_of(Head(queue).variable), now)
            /\ \A other \in MapIndices \ {map_index} :
                  ListUnder(map_index_to_formula_trees', other) =
                      ListUnder(map_index_to_formula_trees, other)

C10_TriggerExtends == [][TriggerExtends]_vars

----------------------------------------------------------------------------
(* C11: the formula tree made when a trigger extends a binding at position *)
(* k records exactly the entries of the original whose subatom has a base  *)
(* variable at a position below k, with their values, and its              *)
(* configuration is that of a fresh formula tree updated with those        *)
(* entries one by one.  An entry that was not copied is accepted later: a  *)
(* measurement the consumer processes is recorded, with its value, by      *)
(* every formula tree under its map index that had no entry for the pair.  *)

Entries(md) == { md[n] : n \in 1 .. Len(md) }

RECURSIVE UpdatedWith(_, _, _)
UpdatedWith(ft, entries, n) ==
    IF n > Len(entries) THEN ft
    ELSE UpdatedWith(update_with_measurement(atoms, ft, entries[n][3],
                                             entries[n][1], entries[n][2]).v,
                     entries, n + 1)

CloneOf(clone, original, k, trigger_timestamp) ==
    /\ clone.timestamps = Append(original.timestamps, trigger_timestamp)
    /\ Entries(clone.measurement_dictionary) =
          { e \in Entries(original.measurement_dictionary) :
                base_variable(atoms[e[1] + 1], e[2]) < k }
    /\ clone.formula_tree =
          UpdatedWith(FormulaTree(clone.timestamps, constraint, <<>>),
                      clone.measurement_dictionary, 1).formula_tree

CloneCopies ==
    Consumes("trigger") /\ variable_index_of(Head(queue).variable) > 0 =>
        LET before == ListUnder(map_index_to_formula_trees, Head(queue).map_index)
        IN  \A clone \in (Len(heap) + 1) .. Len(heap') :
                \E n \in 1 .. Len(before) :
                    CloneOf(heap'[clone], heap[before[n]],
                            variable_index_of(Head(queue).variable), now)

AcceptsMissing ==
    /\ Consumes("measurement")
    /\ Head(queue).map_index \in DOMAIN map_index_to_formula_trees
    /\ monitoring_process' = "running"
    => LET e == Head(queue)
           trees == map_index_to_formula_trees[e.map_index]
       IN  \A n \in 1 .. Len(trees) :
               ~HasEntry(heap[trees[n]].measurement_dictionary, e.atom_index, e.subatom_index)
               => /\ HasEntry(heap'[trees[n]].measurement_dictionary,
                              e.atom_index, e.subatom_index)
                  /\ Entry(heap'[trees[n]].measurement_dictionary,
                           e.atom_index, e.subatom_index) = e.measurement

C11_CloneMeasurements == [][CloneCopies /\ AcceptsMissing]_vars

\* A trigger has extended a binding that had recorded a measurement, and
\* the formula tree made for the extension has the entry.
C11_Witness ==
    /\ new_measurement.type = "trigger"
    /\ variable_index_of(new_measurement.variable) > 0
    /\ \E ft \in FormulaTrees :
          /\ Len(heap[ft].timestamps) = 2
          /\ heap[ft].measurement_dictionary # <<>>

----------------------------------------------------------------------------
(* C12: the bindings grow one timestamp at a time, up to the number of     *)
(* variables.  After every step each formula tree has between 1 and n      *)
(* timestamps and those that existed have kept theirs; a formula tree is   *)
(* only created by a trigger step, with k + 1 timestamps for the variable  *)
(* at position k, and for k > 0 they are the k timestamps of a formula     *)
(* tree under the map index followed by the time of the trigger.  So no    *)
(* formula tree extends a complete binding.                                *)

CreatedByTrigger(created) ==
    /\ Consumes("trigger")
    /\ LET k == variable_index_of(Head(queue).variable)
           before == ListUnder(map_index_to_formula_trees, Head(queue).map_index)
       IN  /\ Len(created.timestamps) = k + 1
           /\ k > 0 => \E n \in 1 .. Len(before) :
                          /\ Len(heap[before[n]].timestamps) = k
                          /\ created.timestamps = Append(heap[before[n]].timestamps, now)

BindingsGrow ==
    /\ Len(heap') >= Len(heap)
    /\ \A ft \in FormulaTrees : heap'[ft].timestamps = heap[ft].timestamps
    /\ \A ft \in 1 .. Len(heap') :
          /\ Len(heap'[ft].timestamps) >= 1
          /\ Len(heap'[ft].timestamps) <= Len(variables)
    /\ \A ft \in (Len(heap) + 1) .. Len(heap') : CreatedByTrigger(heap'[ft])

C12_BindingLengths == [][BindingsGrow]_vars

\* A second trigger for the last variable has been processed with a
\* complete binding already under the map index: there are two complete
\* bindings that extend the same partial binding.
C12_Witness ==
    /\ new_measurement.type = "trigger"
    /\ variable_index_of(new_measurement.variable) = Len(variables) - 1
    /\ \E a, b \in FormulaTrees :
          /\ a # b
          /\ Len(heap[a].timestamps) = 2 /\ Len(heap[b].timestamps) = 2
          /\ heap[a].timestamps[1] = heap[b].timestamps[1]

----------------------------------------------------------------------------
(***************************************************************************)
(* The static analysis: VyPR/SCFG/builder.py (symbolic control-flow        *)
(* graphs), VyPR/SCFG/search.py and VyPR/Instrumentation/analyse.py.       *)
(***************************************************************************)

(* Statement ASTs, as far as the SCFG builder looks at them.  An Assign    *)
(* has the names of its targets and the names of the functions called in   *)
(* its value; an Expr has the names ast.walk finds in it; Pass stands for  *)
(* the statements without a body (pass, return, ...).                      *)

Assign(targets, calls) == [t |-> "Assign", targets |-> targets, calls |-> calls]
Expr(names) == [t |-> "Expr", names |-> names]
Pass == [t |-> "Pass"]
If(body, orelse) == [t |-> "If", body |-> body, orelse |-> orelse]
For(target, body) == [t |-> "For", target |-> target, body |-> body]
While(body) == [t |-> "While", body |-> body]
Try(body, handlers) == [t |-> "Try", body |-> body, handlers |-> handlers]

\* The symbolic states.  Objects are identified by their position in
\* SCFG._symbolic_states; the root is the first.
EmptySymbolicState == [type |-> "EmptySymbolicState", symbols_changed |-> <<>>]
StatementSymbolicState(symbols_changed) ==
    [type |-> "StatementSymbolicState", symbols_changed |-> symbols_changed]
ConditionalEntrySymbolicState ==
    [type |-> "ConditionalEntrySymbolicState", symbols_changed |-> <<>>]
ConditionalExitSymbolicState ==
    [type |-> "ConditionalExitSymbolicState", symbols_changed |-> <<>>]
ForLoopEntrySymbolicState(loop_counter_variables) ==
    [type |-> "ForLoopEntrySymbolicState", symbols_changed |-> loop_counter_variables]
ForLoopExitSymbolicState == [type |-> "ForLoopExitSymbolicState", symbols_changed |-> <<>>]
WhileLoopEntrySymbolicState ==
    [type |-> "WhileLoopEntrySymbolicState", symbols_changed |-> <<>>]
WhileLoopExitSymbolicState ==
    [type |-> "WhileLoopExitSymbolicState", symbols_changed |-> <<>>]

\* type(self) is StatementSymbolicState
is_statement_symbolic_state(symbolic_state) ==
    symbolic_state.type = "StatementSymbolicState"

\* hasattr(symbolic_state, "get_symbols_changed"): StatementSymbolicState
\* and its subclass ForLoopEntrySymbolicState.
has_get_symbols_changed(symbolic_state) ==
    symbolic_state.type \in {"StatementSymbolicState", "ForLoopEntrySymbolicState"}

Contains(list, x) == \E n \in 1 .. Len(list) : list[n] = x

\* An SCFG: _symbolic_states, and for each of them _children and _parents.
\* SCFG.__init__ before the call of subprogram_to_scfg.
EmptySCFG ==
    [symbolic_states |-> <<EmptySymbolicState>>, children |-> << <<>> >>,
     parents |-> << <<>> >>]

_root == 1

\* self._symbolic_states.append(new_symbolic_state)
add_symbolic_state(scfg, symbolic_state) ==
    [symbolic_states |-> Append(scfg.symbolic_states, symbolic_state),
     children |-> Append(scfg.children, <<>>),
     parents |-> Append(scfg.parents, <<>>)]

add_parent(scfg, self, parent_symbolic_state) ==
    [scfg EXCEPT !.parents[self] = Append(@, parent_symbolic_state)]

\* An add_child that does not call add_parent (not what the code does).
add_childOnly(scfg, self, child_symbolic_state) ==
    [scfg EXCEPT !.children[self] = Append(@, child_symbolic_state)]

add_child(scfg, self, child_symbolic_state) ==
    add_parent([scfg EXCEPT !.children[self] = Append(@, child_symbolic_state)],
               child_symbolic_state, self)

\* ast.walk over a target: the names in it.
_extract_symbol_names_from_target(target) == target

\* The walk looks for ast.Expr nodes, which are statements: none is found
\* inside the value of an assignment, whatever it calls.
_extract_function_names(calls) == <<>>

_process_assignment_ast(stmt_ast) ==
    StatementSymbolicState(_extract_symbol_names_from_target(stmt_ast.targets)
                           \o _extract_function_names(stmt_ast.calls))

_process_expression_ast(stmt_ast) == StatementSymbolicState(stmt_ast.names)

\* The entry and exit states of a conditional or a loop, for lines 295-297,
\* 337-339 and 364-366: both are added to _symbolic_states, the entry first.
EntryAndExit(subprogram_ast) ==
    CASE subprogram_ast.t = "If" ->
            <<ConditionalEntrySymbolicState, ConditionalExitSymbolicState>>
      [] subprogram_ast.t = "For" ->
            <<ForLoopEntrySymbolicState(
                  _extract_symbol_names_from_target(subprogram_ast.target)),
              ForLoopExitSymbolicState>>
      [] subprogram_ast.t = "While" ->
            <<WhileLoopEntrySymbolicState, WhileLoopExitSymbolicState>>

\* A conditional without orelse block that gets no edge from its entry to
\* its exit (not what the code does).
link_without_orelseNone(scfg, entry_symbolic_state, exit_symbolic_state) == scfg

\* Lines 318-322: there is no orelse block.
link_without_orelse(scfg, entry_symbolic_state, exit_symbolic_state) ==
    add_child(scfg, entry_symbolic_state, exit_symbolic_state)

\* A loop that gets no edge back to its entry (not what the code does).
link_back_to_entryNone(scfg, final_body_symbolic_state, entry_symbolic_state) == scfg

\* Lines 349-351 and 378-380: the entry of the loop as child of the final
\* state of the body.
link_back_to_entry(scfg, final_body_symbolic_state, entry_symbolic_state) ==
    add_child(scfg, final_body_symbolic_state, entry_symbolic_state)

\* SCFG.subprogram_to_scfg, from the n-th statement of subprogram on: the
\* graph after the call and the symbolic state it returns.  A statement of
\* any other type than Assign, Expr, If, For and While is passed over.
RECURSIVE subprogram_to_scfg(_, _, _, _)
subprogram_to_scfg(scfg, subprogram, n, previous_symbolic_state) ==
    IF n > Len(subprogram)
    THEN [scfg |-> scfg, final |-> previous_symbolic_state]
    ELSE
    LET subprogram_ast == subprogram[n]
    IN  IF subprogram_ast.t \in {"Assign", "Expr"}
        THEN LET new_symbolic_state ==
                     IF subprogram_ast.t = "Assign"
                     THEN _process_assignment_ast(subprogram_ast)
                     ELSE _process_expression_ast(subprogram_ast)
                 added == add_symbolic_state(scfg, new_symbolic_state)
                 new == Len(added.symbolic_states)
             IN  subprogram_to_scfg(add_child(added, previous_symbolic_state, new),
                                    subprogram, n + 1, new)
        ELSE IF subprogram_ast.t \in {"If", "For", "While"}
        THEN LET states == EntryAndExit(subprogram_ast)
                 added == add_symbolic_state(add_symbolic_state(scfg, states[1]), states[2])
                 entry_symbolic_state == Len(added.symbolic_states) - 1
                 exit_symbolic_state == Len(added.symbolic_states)
                 linked == add_child(added, previous_symbolic_state, entry_symbolic_state)
                 block == subprogram_to_scfg(linked, subprogram_ast.body, 1,
                                             entry_symbolic_state)
                 final_body_symbolic_state == block.final
                 closed == add_child(block.scfg, final_body_symbolic_state,
                                     exit_symbolic_state)
                 result ==
                     IF subprogram_ast.t = "If"
                     THEN IF Len(subprogram_ast.orelse) # 0
                          THEN LET orelse == subprogram_to_scfg(closed, subprogram_ast.orelse,
                                                                1, entry_symbolic_state)
                               IN  add_child(orelse.scfg, orelse.final, exit_symbolic_state)
                          ELSE link_without_orelse(closed, entry_symbolic_state,
                                                   exit_symbolic_state)
                     ELSE link_back_to_entry(closed, final_body_symbolic_state,
                                             entry_symbolic_state)
             IN  subprogram_to_scfg(result, subprogram, n + 1, exit_symbolic_state)
        ELSE subprogram_to_scfg(scfg, subprogram, n + 1, previous_symbolic_state)

\* SCFG.__init__(program_asts)
SCFG(program_asts) == subprogram_to_scfg(EmptySCFG, program_asts, 1, _root).scfg

\* The symbolic states of an SCFG, as positions of _symbolic_states.
SymbolicStates(scfg) == 1 .. Len(scfg.symbolic_states)

\* SCFG.get_symbolic_states_from_symbol
get_symbolic_states_from_symbol(scfg, symbol) ==
    LET Changes(n) == /\ has_get_symbols_changed(scfg.symbolic_states[n])
                      /\ Contains(scfg.symbolic_states[n].symbols_changed, symbol)
    IN  SelectSeq([n \in SymbolicStates(scfg) |-> n], Changes)

\* SCFG._get_reachable_symbolic_states, the loop of lines 199-216.
RECURSIVE ReachableLoop(_, _, _, _)
ReachableLoop(scfg, stack, visited, reachable) ==
    IF Len(stack) = 0 THEN reachable
    ELSE LET top == stack[Len(stack)]
             children == scfg.children[top]
             Unvisited(child) == ~Contains(visited, child)
             unvisited_children == SelectSeq(children, Unvisited)
         IN  ReachableLoop(scfg,
                           SubSeq(stack, 1, Len(stack) - 1) \o unvisited_children,
                           visited \o unvisited_children,
                           reachable \o unvisited_children)

_get_reachable_symbolic_states(scfg, source_symbolic_state) ==
    ReachableLoop(scfg, <<source_symbolic_state>>, <<source_symbolic_state>>, <<>>)

\* SCFG.is_reachable_from
is_reachable_from(scfg, target_symbolic_state, source_symbolic_state) ==
    Contains(_get_reachable_symbolic_states(scfg, source_symbolic_state),
             target_symbolic_state)

\* SCFG.get_reachable_symbolic_states_from_symbol
get_reachable_symbolic_states_from_symbol(scfg, symbol, symbolic_state) ==
    LET Reachable(target_symbolic_state) ==
            is_reachable_from(scfg, target_symbolic_state, symbolic_state)
    IN  SelectSeq(get_symbolic_states_from_symbol(scfg, symbol), Reachable)

\* SCFG._get_next_symbolic_states.  list_of_nexts is the shared list, calls
\* the symbolic states the function has been called on, in order, and path
\* those of the calls that have not returned.  Whether a call recurses does
\* not depend on list_of_nexts: a call on a symbolic state of path that
\* recurses repeats the calls that led to it, without end, and Python ends
\* the descent with RecursionError (ok = FALSE).
RECURSIVE _get_next_symbolic_states(_, _, _, _, _)
RECURSIVE ChildrenLoop(_, _, _, _, _, _)
ChildrenLoop(scfg, program_variable, children, n, acc, path) ==
    IF n > Len(children) \/ ~acc.ok THEN acc
    ELSE ChildrenLoop(scfg, program_variable, children, n + 1,
                      _get_next_symbolic_states(scfg, program_variable, children[n],
                                                acc, path),
                      path)

_get_next_symbolic_states(scfg, program_variable, current_symbolic_state, acc, path) ==
    LET called == [acc EXCEPT !.calls = Append(@, current_symbolic_state)]
        state == scfg.symbolic_states[current_symbolic_state]
    IN  IF /\ is_statement_symbolic_state(state)
           /\ Contains(state.symbols_changed, program_variable)
        THEN IF ~Contains(called.list_of_nexts, current_symbolic_state)
             THEN [called EXCEPT !.list_of_nexts = Append(@, current_symbolic_state)]
             ELSE called
        ELSE IF current_symbolic_state \in path
        THEN [called EXCEPT !.ok = FALSE]
        ELSE ChildrenLoop(scfg, program_variable, scfg.children[current_symbolic_state],
                          1, called, path \cup {current_symbolic_state})

\* SCFG.get_next_symbolic_states: the list returned (v), whether the call
\* returned (ok), and the calls of _get_next_symbolic_states it made.
get_next_symbolic_states(scfg, program_variable, base_symbolic_state) ==
    LET r == _get_next_symbolic_states(scfg, program_variable, base_symbolic_state,
                 [list_of_nexts |-> <<>>, calls |-> <<>>, ok |-> TRUE], {})
    IN  [v |-> r.list_of_nexts, ok |-> r.ok, calls |-> r.calls]

----------------------------------------------------------------------------
(* The functions analysed.  f is drawn from the programs below; g is a     *)
(* second function of the module.  The statements change the variable a    *)
(* or call the function g.                                                 *)

MaxDepth == 2       \* nesting depth of conditionals and loops in f

SimpleStatements == { Assign(<<"a">>, <<>>), Expr(<<"g">>), Pass }

SimpleBodies ==
    { <<statement>> : statement \in SimpleStatements }
        \cup { <<Assign(<<"a">>, <<>>), Expr(<<"g">>)>> }

\* The conditionals, loops and try statements nested to exactly the depth.
RECURSIVE Compound(_)
Compound(depth) ==
    LET bodies == IF depth = 1 THEN SimpleBodies
                  ELSE { <<statement>> : statement \in Compound(depth - 1) }
        orelses == IF depth = 1 THEN { <<>>, <<Expr(<<"g">>)>>, <<Pass>> }
                   ELSE { <<>>, <<Expr(<<"g">>)>> }
        handlers == { <<>>, << <<Expr(<<"g">>)>> >> }
    IN  { If(body, orelse) : body \in bodies, orelse \in orelses }
            \cup { For(<<"a">>, body) : body \in bodies }
            \cup { While(body) : body \in bodies }
            \cup (IF depth = 1
                  THEN { Try(<<Assign(<<"a">>, <<>>)>>, h) : h \in handlers }
                  ELSE {})

Programs ==
    SimpleBodies \cup
    UNION { { <<statement>> : statement \in Compound(depth) }
                \cup { <<Expr(<<"g">>), statement>> : statement \in Compound(depth) }
                \cup { <<statement, Assign(<<"a">>, <<>>)>> : statement \in Compound(depth) }
            : depth \in 1 .. MaxDepth }

\* g(); a = g()
OtherFunction == <<Expr(<<"g">>), Assign(<<"a">>, <<"g">>)>>

ProgramSymbols == {"a", "g"}

\* The SCFG of f, once the map is built.
scfg == function_name_to_scfg_map["f"]

AnalysisInit ==
    /\ module_asts \in { [name \in {"f", "g"} |->
                            IF name = "f" THEN program ELSE OtherFunction]
                         : program \in Programs }
    /\ function_name_to_scfg_map = EmptyDict
    /\ returned = NoCall
    /\ _module_to_lines = EmptyDict
    /\ locals = NoLocals
    /\ executed = <<>>
    /\ threads = <<>>
    /\ requests = EmptyDict
    /\ specification = Specification(<<"q">>, q_a_lt)
    /\ queue = <<>>
    /\ verdict_queue = <<>>
    /\ heap = <<>>
    /\ map_index_to_formula_trees = EmptyDict
    /\ new_measurement = NoEvent
    /\ monitoring_process = "running"
    /\ registered = EmptyDict
    /\ control = "idle"
    /\ now = 1
    /\ emitted = 0

\* ModuleProcessor.get_name_to_scfg_map: an SCFG for every function.
get_name_to_scfg_map ==
    /\ function_name_to_scfg_map = EmptyDict
    /\ function_name_to_scfg_map' =
          [name \in DOMAIN module_asts |-> SCFG(module_asts[name])]
    /\ returned' = [op |-> "get_name_to_scfg_map"]
    /\ UNCHANGED module_asts
    /\ UNCHANGED monitor_vars
    /\ UNCHANGED instrument_vars
    /\ UNCHANGED hosting_vars

\* The SCFGs are built and no call has been made on them.  The calls below
\* read the SCFGs and change nothing: what a call returns does not depend
\* on the calls before it, and a behaviour makes one.
Built == returned.op = "get_name_to_scfg_map"

\* A call of SCFG.is_reachable_from on the SCFG of f.
call_is_reachable_from(target_symbolic_state, source_symbolic_state) ==
    /\ Built
    /\ returned' = [op |-> "is_reachable_from",
                    target_symbolic_state |-> target_symbolic_state,
                    source_symbolic_state |-> source_symbolic_state,
                    v |-> is_reachable_from(scfg, target_symbolic_state,
                                            source_symbolic_state)]
    /\ UNCHANGED <<module_asts, function_name_to_scfg_map>>
    /\ UNCHANGED monitor_vars
    /\ UNCHANGED instrument_vars
    /\ UNCHANGED hosting_vars

\* A call of SCFG.get_next_symbolic_states on the SCFG of f.
call_get_next_symbolic_states(program_variable, base_symbolic_state) ==
    /\ Built
    /\ LET r == get_next_symbolic_states(scfg, program_variable, base_symbolic_state)
       IN  returned' = [op |-> "get_next_symbolic_states",
                        program_variable |-> program_variable,
                        base_symbolic_state |-> base_symbolic_state,
                        v |-> r.v, ok |-> r.ok, calls |-> r.calls]
    /\ UNCHANGED <<module_asts, function_name_to_scfg_map>>
    /\ UNCHANGED monitor_vars
    /\ UNCHANGED instrument_vars
    /\ UNCHANGED hosting_vars

\* Predicates of quantifiers (Specifications/predicates.py).
changes(program_variable, during_function) ==
    [type |-> "changes", symbol |-> program_variable,
     during_function |-> during_function]
calls(function_name, during_function) ==
    [type |-> "calls", symbol |-> function_name,
     during_function |-> during_function]
future(predicate) == [type |-> "future", predicate |-> predicate]

\* A symbolic state of one of the SCFGs of the map, and Python's None.
StateOf(function_name, symbolic_state) ==
    [function |-> function_name, state |-> symbolic_state]
NoSymbolicState == [function |-> "None", state |-> 0]

\* SCFGSearcher.get_function_name_of_symbolic_state
get_function_name_of_symbolic_state(map, symbolic_state) ==
    IF \E function_name \in DOMAIN map :
          /\ symbolic_state.function = function_name
          /\ symbolic_state.state \in SymbolicStates(map[function_name])
    THEN symbolic_state.function
    ELSE "None"

StatesOf(function_name, list) ==
    [n \in 1 .. Len(list) |-> StateOf(function_name, list[n])]

\* A variant of find_symbolic_states that never looks at reachability.
find_symbolic_statesAll(map, predicate, base_symbolic_state) ==
    LET inner == IF predicate.type = "future" THEN predicate.predicate ELSE predicate
    IN  StatesOf(inner.during_function,
                 get_symbolic_states_from_symbol(map[inner.during_function],
                                                 inner.symbol))

\* SCFGSearcher.find_symbolic_states
find_symbolic_states(map, predicate, base_symbolic_state) ==
    IF predicate.type \in {"changes", "calls"}
    THEN StatesOf(predicate.during_function,
                  get_symbolic_states_from_symbol(map[predicate.during_function],
                                                  predicate.symbol))
    ELSE LET inner_predicate == predicate.predicate
             program_variable == inner_predicate.symbol
             function_name == inner_predicate.during_function
             relevant_scfg == map[function_name]
             base_function_name ==
                 get_function_name_of_symbolic_state(map, base_symbolic_state)
         IN  IF function_name = base_function_name
             THEN StatesOf(function_name,
                           get_reachable_symbolic_states_from_symbol(
                               relevant_scfg, program_variable,
                               base_symbolic_state.state))
             ELSE StatesOf(function_name,
                           get_symbolic_states_from_symbol(relevant_scfg,
                                                           program_variable))

\* Analyser._recurse_on_quantifier: the lists of symbolic states that
\* extend current_list by one state for every quantifier from
\* index_to_process on.
RECURSIVE _recurse_on_quantifier(_, _, _, _)
RECURSIVE RecurseLoop(_, _, _, _, _)
RecurseLoop(map, quantifier_pair_sequence, index_to_process, extended_lists, n) ==
    IF n > Len(extended_lists) THEN <<>>
    ELSE _recurse_on_quantifier(map, quantifier_pair_sequence, index_to_process + 1,
                                extended_lists[n])
            \o RecurseLoop(map, quantifier_pair_sequence, index_to_process,
                           extended_lists, n + 1)

_recurse_on_quantifier(map, quantifier_pair_sequence, index_to_process, current_list) ==
    LET predicate == quantifier_pair_sequence[index_to_process][2]
        previous_symbolic_state ==
            IF current_list = <<>> THEN NoSymbolicState ELSE current_list[Len(current_list)]
        relevant_symbolic_states ==
            find_symbolic_states(map, predicate, previous_symbolic_state)
        extended_lists ==
            [n \in 1 .. Len(relevant_symbolic_states) |->
                Append(current_list, relevant_symbolic_states[n])]
    IN  IF index_to_process = Len(quantifier_pair_sequence)
        THEN extended_lists
        ELSE RecurseLoop(map, quantifier_pair_sequence, index_to_process,
                         extended_lists, 1)

\* new_map[variable] = symbolic_state_list[i] for i in order: the last
\* quantifier of a variable gives its state.
LastOf(quantifier_pair_sequence, variable) ==
    CHOOSE i \in DOMAIN quantifier_pair_sequence :
        /\ quantifier_pair_sequence[i][1] = variable
        /\ \A j \in DOMAIN quantifier_pair_sequence :
              quantifier_pair_sequence[j][1] = variable => j <= i

\* Analyser._inspect_quantifiers, for the (variable, predicate) pairs of a
\* specification: the maps from variables to symbolic states.
_inspect_quantifiers(map, quantifier_pair_sequence) ==
    LET lists == _recurse_on_quantifier(map, quantifier_pair_sequence, 1, <<>>)
        bound == { quantifier_pair_sequence[i][1] :
                          i \in DOMAIN quantifier_pair_sequence }
    IN  [n \in 1 .. Len(lists) |->
            [variable \in bound |->
                lists[n][LastOf(quantifier_pair_sequence, variable)]]]

MaxQuantifiers == 3     \* quantifiers of a specification

Functions == {"f", "g"}

\* The variable of the i-th quantifier.
VariableNames == <<"q", "t", "u", "v", "w">>

FirstPredicates ==
    { changes("a", function_name) : function_name \in Functions }
        \cup { calls("g", function_name) : function_name \in Functions }

\* Specification.forall takes a changes or calls predicate, Forall.forall
\* a future predicate.
QuantifierPairSequences ==
    UNION { { [i \in 1 .. length |->
                 <<VariableNames[i],
                   IF i = 1 THEN predicates[i] ELSE future(predicates[i])>>]
              : predicates \in [1 .. length -> FirstPredicates] }
            : length \in 1 .. MaxQuantifiers }

\* Analyser._inspect_quantifiers on the SCFGs of the module.
call_inspect_quantifiers(quantifier_pair_sequence) ==
    /\ Built
    /\ returned' = [op |-> "_inspect_quantifiers",
                    quantifier_pair_sequence |-> quantifier_pair_sequence,
                    v |-> _inspect_quantifiers(function_name_to_scfg_map,
                                               quantifier_pair_sequence)]
    /\ UNCHANGED <<module_asts, function_name_to_scfg_map>>
    /\ UNCHANGED monitor_vars
    /\ UNCHANGED instrument_vars
    /\ UNCHANGED hosting_vars

----------------------------------------------------------------------------
(* Expressions of constraints (Specifications/constraints.py).  The x of   *)
(* an atom is the list of the expressions it is built from.                *)

ConcreteStateVariable(name) == [t |-> "ConcreteStateVariable", name |-> name]
TransitionVariable(name) == [t |-> "TransitionVariable", name |-> name]

ConcreteStateExpression ==
    { "ConcreteStateVariable", "ConcreteStateBeforeTransition",
      "ConcreteStateAfterTransition", "NextConcreteStateFromConcreteState",
      "NextConcreteStateFromTransition" }

\* ConcreteStateExpression.next and TransitionExpression.next
next(expression, predicate) ==
    [t |-> (IF expression.t \in ConcreteStateExpression
            THEN IF predicate.type = "calls"
                 THEN "NextTransitionFromConcreteState"
                 ELSE "NextConcreteStateFromConcreteState"
            ELSE IF predicate.type = "calls"
                 THEN "NextTransitionFromTransition"
                 ELSE "NextConcreteStateFromTransition"),
     expression |-> expression, predicate |-> predicate]

before(transition_expression) ==
    [t |-> "ConcreteStateBeforeTransition", expression |-> transition_expression]
after(transition_expression) ==
    [t |-> "ConcreteStateAfterTransition", expression |-> transition_expression]

ValueInConcreteState(concrete_state_expression, program_variable_name) ==
    [t |-> "ValueInConcreteState", expression |-> concrete_state_expression,
     program_variable |-> program_variable_name]
ValueLengthInConcreteState(value_expression) ==
    [t |-> "ValueLengthInConcreteState", expression |-> value_expression]
DurationOfTransition(transition_expression) ==
    [t |-> "DurationOfTransition", expression |-> transition_expression]
TimeBetween(concrete_state_expression_1, concrete_state_expression_2) ==
    [t |-> "TimeBetween", lhs |-> concrete_state_expression_1,
     rhs |-> concrete_state_expression_2]

IsNext(obj) ==
    obj.t \in { "NextTransitionFromConcreteState", "NextConcreteStateFromConcreteState",
                "NextTransitionFromTransition", "NextConcreteStateFromTransition" }

\* _derive_sequence_of_temporal_operators: the temporal operators from the
\* outermost inwards, then the variable.
RECURSIVE _derive_sequence_of_temporal_operators(_)
_derive_sequence_of_temporal_operators(obj) ==
    IF obj.t \in {"ConcreteStateVariable", "TransitionVariable"} THEN <<obj>>
    ELSE IF obj.t = "atom" THEN _derive_sequence_of_temporal_operators(obj.x[1])
    ELSE IF obj.t \in { "ValueInConcreteState", "ValueLengthInConcreteState",
                        "DurationOfTransition" }
    THEN _derive_sequence_of_temporal_operators(obj.expression)
    ELSE <<obj>> \o _derive_sequence_of_temporal_operators(obj.expression)

\* get_lhs_expression and get_rhs_expression of a mixed atom.
HasLhsAndRhs(obj) == obj.cls # "DurationOfTransitionLessThanValueInConcreteState"
get_expression(obj, index) ==
    IF obj.cls = "TimeBetweenLessThanConstant"
    THEN <<obj.x[1].lhs, obj.x[1].rhs>>[index + 1]
    ELSE obj.x[index + 1]

\* derive_sequence_of_temporal_operators: the sequences of subatoms 0 and
\* 1; AttributeError for a mixed atom without get_lhs_expression.
derive_sequence_of_temporal_operators(obj) ==
    IF is_normal_atom(obj)
    THEN Returns(<<_derive_sequence_of_temporal_operators(obj)>>)
    ELSE IF HasLhsAndRhs(obj)
    THEN Returns(<<_derive_sequence_of_temporal_operators(get_expression(obj, 0)),
                   _derive_sequence_of_temporal_operators(get_expression(obj, 1))>>)
    ELSE Raises(None)

\* A specification with its quantifiers: Specification().forall(...) ...
\* .check(lambda ...).
SpecificationOf(quantifier_pair_sequence, instance) ==
    [variables |-> [i \in DOMAIN quantifier_pair_sequence |->
                       quantifier_pair_sequence[i][1]],
     constraint |-> instance,
     quantifier_pair_sequence |-> quantifier_pair_sequence]

\* type(top) of an object on the stack of get_function_names_used.
TypeOf(top) ==
    IF "type" \in DOMAIN top THEN top.type
    ELSE IF top.t = "atom" THEN top.cls ELSE top.t

Forall(quantifier_pair_sequence, i, instance) ==
    [t |-> "Forall", quantifier_pair_sequence |-> quantifier_pair_sequence,
     i |-> i, constraint |-> instance]

\* The loop of Specification.get_function_names_used; the top of the stack
\* is the end of the list.
RECURSIVE FunctionNamesLoop(_, _)
FunctionNamesLoop(stack, all_function_names) ==
    IF Len(stack) = 0 THEN all_function_names
    ELSE
    LET top == stack[Len(stack)]
        rest == SubSeq(stack, 1, Len(stack) - 1)
        type == TypeOf(top)
    IN  IF type \in {"changes", "calls"}
        THEN FunctionNamesLoop(rest, Append(all_function_names, top.during_function))
        ELSE IF type = "future"
        THEN FunctionNamesLoop(Append(rest, top.predicate), all_function_names)
        ELSE IF type = "Specification"
        THEN FunctionNamesLoop(
                 Append(rest, Forall(top.quantifier_pair_sequence, 1, top.constraint)),
                 all_function_names)
        ELSE IF type = "Forall"
        THEN FunctionNamesLoop(
                 rest \o <<top.quantifier_pair_sequence[top.i][2],
                           IF top.i < Len(top.quantifier_pair_sequence)
                           THEN Forall(top.quantifier_pair_sequence, top.i + 1,
                                       top.constraint)
                           ELSE top.constraint>>,
                 all_function_names)
        ELSE IF type \in {"Conjunction", "Disjunction", "Negation"}
        THEN FunctionNamesLoop(rest \o top.ops, all_function_names)
        ELSE IF type \in { "ValueInConcreteStateEqualsConstant",
                           "ValueInConcreteStateLessThanConstant",
                           "ValueInConcreteStateGreaterThanConstant" }
        THEN FunctionNamesLoop(Append(rest, top.x[1].expression), all_function_names)
        ELSE IF type \in {"ConcreteStateBeforeTransition", "ConcreteStateAfterTransition"}
        THEN FunctionNamesLoop(Append(rest, top.expression), all_function_names)
        ELSE IF type \in { "DurationOfTransitionLessThanConstant",
                           "DurationOfTransitionGreaterThanConstant" }
        THEN FunctionNamesLoop(Append(rest, top.x[1].expression), all_function_names)
        ELSE IF IsNext(top)
        THEN FunctionNamesLoop(Append(rest, top.predicate), all_function_names)
        ELSE IF type = "TimeBetweenLessThanConstant"
        THEN FunctionNamesLoop(rest \o <<top.x[1].lhs, top.x[1].rhs>>, all_function_names)
        ELSE FunctionNamesLoop(rest, all_function_names)

\* Specification.get_function_names_used: list(set(all_function_names)),
\* a list without duplicates in no particular order, here the set.
get_function_names_used(self) ==
    LET all_function_names ==
            FunctionNamesLoop(<<[t |-> "Specification",
                                 quantifier_pair_sequence |-> self.quantifier_pair_sequence,
                                 constraint |-> self.constraint]>>, <<>>)
    IN  { all_function_names[n] : n \in DOMAIN all_function_names }

----------------------------------------------------------------------------
(* The instrumentation points of the atoms (SCFG/search.py,                *)
(* Instrumentation/analyse.py).                                            *)

\* SCFGSearcher.get_symbolic_states_from_temporal_operator: the list of
\* symbolic states, or RecursionError from get_next_symbolic_states.
get_symbolic_states_from_temporal_operator(map, temporal_operator, base_symbolic_state) ==
    IF IsNext(temporal_operator)
    THEN LET base_function_name ==
                 get_function_name_of_symbolic_state(map, base_symbolic_state)
             temporal_operator_predicate == temporal_operator.predicate
             temporal_operator_function_name ==
                 temporal_operator_predicate.during_function
             program_variable == temporal_operator_predicate.symbol
         IN  IF base_function_name = temporal_operator_function_name
             THEN LET r == get_next_symbolic_states(map[base_function_name],
                                                    program_variable,
                                                    base_symbolic_state.state)
                  IN  [v |-> StatesOf(base_function_name, r.v), ok |-> r.ok]
             ELSE Returns(StatesOf(temporal_operator_function_name,
                                   get_symbolic_states_from_symbol(
                                       map[temporal_operator_function_name],
                                       program_variable)))
    ELSE Returns(<<base_symbolic_state>>)

\* for current_symbolic_state in current_symbolic_states:
\*     new_symbolic_states += next_symbolic_states
RECURSIVE CurrentStatesLoop(_, _, _, _, _)
CurrentStatesLoop(map, temporal_operator, current_symbolic_states, n, new_symbolic_states) ==
    IF n > Len(current_symbolic_states) THEN Returns(new_symbolic_states)
    ELSE LET next_symbolic_states ==
                 get_symbolic_states_from_temporal_operator(
                     map, temporal_operator, current_symbolic_states[n])
         IN  IF ~next_symbolic_states.ok THEN Raises(new_symbolic_states)
             ELSE CurrentStatesLoop(map, temporal_operator, current_symbolic_states,
                                    n + 1, new_symbolic_states \o next_symbolic_states.v)

\* for temporal_operator in temporal_operator_sequence:
RECURSIVE TemporalOperatorLoop(_, _, _, _)
TemporalOperatorLoop(map, temporal_operator_sequence, n, current_symbolic_states) ==
    IF n > Len(temporal_operator_sequence) THEN Returns(current_symbolic_states)
    ELSE LET new_symbolic_states ==
                 CurrentStatesLoop(map, temporal_operator_sequence[n],
                                   current_symbolic_states, 1, <<>>)
         IN  IF ~new_symbolic_states.ok THEN new_symbolic_states
             ELSE TemporalOperatorLoop(map, temporal_operator_sequence, n + 1,
                                       new_symbolic_states.v)

\* The symbolic states of one subatom, from its sequence of temporal
\* operators with the base variable at the end.
SubatomStates(map, sequence, variable_symbolic_state_map) ==
    LET variable == sequence[Len(sequence)]
        temporal_operator_sequence == SubSeq(sequence, 1, Len(sequence) - 1)
    IN  TemporalOperatorLoop(map, temporal_operator_sequence, 1,
                             <<variable_symbolic_state_map[variable.name]>>)

\* SCFGSearcher.get_instrumentation_points_for_atomic_constraint: for the
\* subatoms 0 and 1 (position 1 and 2) the list of symbolic states.
get_instrumentation_points_for_atomic_constraint(map, atomic_constraint, variable_symbolic_state_map) ==
    LET temporal_operator_sequence_map ==
            derive_sequence_of_temporal_operators(atomic_constraint)
    IN  IF ~temporal_operator_sequence_map.ok THEN Raises(<<>>)
        ELSE LET subatoms ==
                     [subatom_index \in DOMAIN temporal_operator_sequence_map.v |->
                         SubatomStates(map, temporal_operator_sequence_map.v[subatom_index],
                                       variable_symbolic_state_map)]
             IN  [v |-> [subatom_index \in DOMAIN subatoms |-> subatoms[subatom_index].v],
                  ok |-> \A subatom_index \in DOMAIN subatoms : subatoms[subatom_index].ok]

\* Analyser._inspect_constraints: the instrumentation point tree, by map
\* index, atom index and subatom index (each from 1 here), or the
\* exception.
_inspect_constraints(map, self, variable_to_symbolic_state_maps) ==
    LET atomic_constraints == get_atomic_constraints(self.constraint)
        entries ==
            [map_index \in DOMAIN variable_to_symbolic_state_maps |->
                [atomic_constraint_index \in DOMAIN atomic_constraints |->
                    get_instrumentation_points_for_atomic_constraint(
                        map, atomic_constraints[atomic_constraint_index],
                        variable_to_symbolic_state_maps[map_index])]]
    IN  [v |-> [map_index \in DOMAIN entries |->
                   [atomic_constraint_index \in DOMAIN entries[map_index] |->
                       entries[map_index][atomic_constraint_index].v]],
         ok |-> \A map_index \in DOMAIN entries :
                   \A atomic_constraint_index \in DOMAIN entries[map_index] :
                       entries[map_index][atomic_constraint_index].ok]

\* variables.index(name) of the base variable of an expression.
BaseOf(expression) ==
    LET sequence == _derive_sequence_of_temporal_operators(expression)
    IN  IF sequence[Len(sequence)].name = "q" THEN 0 ELSE 1

ValueAtom(e) ==
    Atom("ValueInConcreteStateLessThanConstant", <<ValueInConcreteState(e, "a")>>,
         K, <<BaseOf(e)>>)
LengthAtom(e) ==
    Atom("ValueLengthInConcreteStateLessThanConstant",
         <<ValueLengthInConcreteState(ValueInConcreteState(e, "a"))>>, K, <<BaseOf(e)>>)
DurationAtom(e) ==
    Atom("DurationOfTransitionLessThanConstant", <<DurationOfTransition(e)>>,
         K, <<BaseOf(e)>>)
LengthDurationAtom(e1, e2) ==
    Atom("ValueLengthInConcreteStateLessThanTransitionDuration",
         <<ValueLengthInConcreteState(ValueInConcreteState(e1, "a")),
           DurationOfTransition(e2)>>, K, <<BaseOf(e1), BaseOf(e2)>>)
DurationValueAtom(e1, e2) ==
    Atom("DurationOfTransitionLessThanValueInConcreteState",
         <<DurationOfTransition(e1), ValueInConcreteState(e2, "a")>>,
         K, <<BaseOf(e1), BaseOf(e2)>>)
TimeBetweenAtom(e1, e2) ==
    Atom("TimeBetweenLessThanConstant", <<TimeBetween(e1, e2)>>,
         K, <<BaseOf(e1), BaseOf(e2)>>)

\* The specifications analysed: one quantifier, on f or on g, and one atom
\* over the variable with one or two next operators, each on f or on g.
AnalysedQuantifiers ==
    { << <<"q", changes("a", "f")>> >>, << <<"q", calls("g", "g")>> >> }

VariableOf(quantifier_pair_sequence) ==
    IF quantifier_pair_sequence[1][2].type = "changes"
    THEN ConcreteStateVariable("q") ELSE TransitionVariable("q")

Chains(variable) ==
    { next(variable, p) : p \in FirstPredicates }
        \cup { next(next(variable, p1), p2) : p1 \in FirstPredicates, p2 \in FirstPredicates }

\* q...(a) < K for a state, q....duration() < K for a transition, and
\* timeBetween of the state at the variable and the state at the chain.
AtomsOver(variable) ==
    LET here == IF variable.t = "ConcreteStateVariable" THEN variable
                ELSE before(variable)
        StateAt(e) == IF e.t \in ConcreteStateExpression THEN e ELSE before(e)
    IN  { IF e.t \in ConcreteStateExpression THEN ValueAtom(e) ELSE DurationAtom(e) :
             e \in Chains(variable) }
            \cup { TimeBetweenAtom(here, StateAt(next(variable, p))) :
                      p \in FirstPredicates }

AnalysedSpecifications ==
    UNION { { SpecificationOf(quantifier_pair_sequence, instance) :
                 instance \in AtomsOver(VariableOf(quantifier_pair_sequence)) }
            : quantifier_pair_sequence \in AnalysedQuantifiers }

\* Analyser._inspect_quantifiers and _inspect_constraints for a
\* specification on the SCFGs of the module.
call_inspect_constraints(self) ==
    /\ Built
    /\ LET variable_to_symbolic_state_maps ==
               _inspect_quantifiers(function_name_to_scfg_map,
                                    self.quantifier_pair_sequence)
           instrumentation_point_tree ==
               _inspect_constraints(function_name_to_scfg_map, self,
                                    variable_to_symbolic_state_maps)
       IN  returned' = [op |-> "_inspect_constraints",
                        specification |-> self,
                        variable_to_symbolic_state_maps |->
                            variable_to_symbolic_state_maps,
                        v |-> instrumentation_point_tree.v,
                        ok |-> instrumentation_point_tree.ok]
    /\ UNCHANGED <<module_asts, function_name_to_scfg_map>>
    /\ UNCHANGED monitor_vars
    /\ UNCHANGED instrument_vars
    /\ UNCHANGED hosting_vars

AnalysisNext ==
    \/ get_name_to_scfg_map
    \/ /\ Built
       /\ \E target_symbolic_state, source_symbolic_state \in SymbolicStates(scfg) :
             call_is_reachable_from(target_symbolic_state, source_symbolic_state)
    \/ /\ Built
       /\ \E program_variable \in ProgramSymbols,
             base_symbolic_state \in SymbolicStates(scfg) :
             call_get_next_symbolic_states(program_variable, base_symbolic_state)
    \/ /\ Built
       /\ \E quantifier_pair_sequence \in QuantifierPairSequences :
             call_inspect_quantifiers(quantifier_pair_sequence)
    \/ /\ Built
       /\ \E self \in AnalysedSpecifications : call_inspect_constraints(self)

AnalysisSpec == AnalysisInit /\ [][AnalysisNext]_vars

----------------------------------------------------------------------------
(* Specifications with their quantifiers and the expressions of their      *)
(* atoms, for the functions of Specification and Constraint: q is bound by *)
(* changes('a').during('f'), t by future(calls('g').during('f')), and the  *)
(* next operators of the atoms look into the functions g and h.            *)

MaxChain == 2       \* next, before and after operators applied to a variable
MaxNesting == 2     \* connectives above an atom

Quantifiers ==
    << <<"q", changes("a", "f")>>, <<"t", future(calls("g", "f"))>> >>

NextPredicates ==
    { changes("a", "g"), changes("a", "h"), calls("g", "g"), calls("g", "h") }

RECURSIVE StateExpressions(_)
RECURSIVE TransitionExpressions(_)
StateExpressions(depth) ==
    IF depth = 0 THEN { ConcreteStateVariable("q") }
    ELSE StateExpressions(depth - 1)
            \cup { next(e, p) :
                      e \in StateExpressions(depth - 1) \cup TransitionExpressions(depth - 1),
                      p \in { np \in NextPredicates : np.type = "changes" } }
            \cup { before(e) : e \in TransitionExpressions(depth - 1) }
            \cup { after(e) : e \in TransitionExpressions(depth - 1) }
TransitionExpressions(depth) ==
    IF depth = 0 THEN { TransitionVariable("t") }
    ELSE TransitionExpressions(depth - 1)
            \cup { next(e, p) :
                      e \in StateExpressions(depth - 1) \cup TransitionExpressions(depth - 1),
                      p \in { np \in NextPredicates : np.type = "calls" } }

\* The atoms of every kind; the operands of mixed atoms have one operator
\* at most.
StructuredAtoms ==
    { ValueAtom(e) : e \in StateExpressions(MaxChain) }
        \cup { LengthAtom(e) : e \in StateExpressions(MaxChain) }
        \cup { DurationAtom(e) : e \in TransitionExpressions(MaxChain) }
        \cup { LengthDurationAtom(e1, e2) :
                  e1 \in StateExpressions(1), e2 \in TransitionExpressions(1) }
        \cup { DurationValueAtom(e1, e2) :
                  e1 \in TransitionExpressions(1), e2 \in StateExpressions(1) }
        \cup { TimeBetweenAtom(e1, e2) :
                  e1 \in StateExpressions(1), e2 \in StateExpressions(1) }

\* Three atoms that differ, for formulas with connectives.
SmallAtoms ==
    { ValueAtom(ConcreteStateVariable("q")),
      DurationAtom(TransitionVariable("t")),
      LengthAtom(next(ConcreteStateVariable("q"), changes("a", "g"))) }

RECURSIVE Formulas(_)
Formulas(nesting) ==
    IF nesting = 0 THEN SmallAtoms
    ELSE LET smaller == Formulas(nesting - 1)
         IN  smaller
                \cup { Negation(f) : f \in smaller }
                \cup { Conjunction(<<f, a>>) : f \in smaller, a \in SmallAtoms }
                \cup { Conjunction(<<a, f>>) : f \in smaller, a \in SmallAtoms }
                \cup { Disjunction(<<f, a>>) : f \in smaller, a \in SmallAtoms }
                \cup { Disjunction(<<a, f>>) : f \in smaller, a \in SmallAtoms }

StructuredSpecifications ==
    { SpecificationOf(Quantifiers, instance) :
         instance \in StructuredAtoms \cup Formulas(MaxNesting) }

SpecificationInit ==
    /\ specification \in StructuredSpecifications
    /\ queue = <<>>
    /\ verdict_queue = <<>>
    /\ heap = <<>>
    /\ map_index_to_formula_trees = EmptyDict
    /\ new_measurement = NoEvent
    /\ monitoring_process = "running"
    /\ registered = EmptyDict
    /\ control = "idle"
    /\ now = 1
    /\ emitted = 0
    /\ module_asts = EmptyDict
    /\ function_name_to_scfg_map = EmptyDict
    /\ returned = NoCall
    /\ _module_to_lines = EmptyDict
    /\ locals = NoLocals
    /\ executed = <<>>
    /\ threads = <<>>
    /\ requests = EmptyDict

\* A call of Specification.get_function_names_used.
call_get_function_names_used ==
    /\ returned = NoCall
    /\ returned' = [op |-> "get_function_names_used",
                    v |-> get_function_names_used(specification)]
    /\ UNCHANGED <<module_asts, function_name_to_scfg_map>>
    /\ UNCHANGED monitor_vars
    /\ UNCHANGED instrument_vars
    /\ UNCHANGED hosting_vars

\* A call of Constraint.get_atomic_constraints on the constraint of the
\* specification.
call_get_atomic_constraints ==
    /\ returned = NoCall
    /\ returned' = [op |-> "get_atomic_constraints",
                    v |-> get_atomic_constraints(specification.constraint)]
    /\ UNCHANGED <<module_asts, function_name_to_scfg_map>>
    /\ UNCHANGED monitor_vars
    /\ UNCHANGED instrument_vars
    /\ UNCHANGED hosting_vars

SpecificationNext ==
    \/ call_get_function_names_used
    \/ call_get_atomic_constraints

SpecificationSpec == SpecificationInit /\ [][SpecificationNext]_vars

----------------------------------------------------------------------------
(* The instrumenter (Instrumentation/instrument.py) on the module of f.    *)
(* Here f is a sequence of calls of g and h and of assignments to a.  A    *)
(* statement takes one source line or more and its lineno is that of its   *)
(* first line.  A line of the module is the def line, a line of a          *)
(* statement, or the code of an instrument.                                *)

MaxStatements == 3  \* statements of f

Spans == {1, 2}     \* the numbers of source lines a statement takes
Durations == {1, 2} \* the ticks a statement takes to run

InstrumentedStatements ==
    { Expr(<<"g">>), Expr(<<"h">>), Assign(<<"a">>, <<>>) }

RECURSIVE Blocks(_)
Blocks(n) ==
    IF n = 0 THEN { <<>> }
    ELSE { Append(block, statement) :
              block \in Blocks(n - 1), statement \in InstrumentedStatements }

InstrumentedPrograms == UNION { Blocks(n) : n \in 1 .. MaxStatements }

DefLine == [t |-> "def"]
ImportLine == [t |-> "import"]
StatementLine(statement, part, parts) ==
    [t |-> "statement", statement |-> statement, part |-> part, parts |-> parts]

RECURSIVE StatementLines(_, _)
StatementLines(spans, n) ==
    IF n > Len(spans) THEN <<>>
    ELSE [part \in 1 .. spans[n] |-> StatementLine(n, part, spans[n])]
            \o StatementLines(spans, n + 1)

\* Instrument._get_lines_from_module: def f(): and the lines of its
\* statements, the n-th statement on spans[n] lines.
_get_lines_from_module(spans) == <<DefLine>> \o StatementLines(spans, 1)

\* symbolic_state.get_ast_object().lineno in the lines read from the file:
\* the symbolic state after the root is that of the first statement.
lineno(lines, symbolic_state) ==
    CHOOSE i \in DOMAIN lines :
        /\ lines[i].t = "statement"
        /\ lines[i].statement = symbolic_state.state - 1
        /\ lines[i].part = 1

\* The code of an instrument.  The indices are Python's, from 0; name is
\* the quantified variable of a trigger and the program variable of a
\* value.
Code(t, map_index, atom_index, subatom_index, name) ==
    [t |-> t, map_index |-> map_index, atom_index |-> atom_index,
     subatom_index |-> subatom_index, name |-> name]

\* vypr.send_trigger(map_index, 'variable')
_generate_quantifier_instrument_code(map_index, variable) ==
    Code("send_trigger", map_index, -1, -1, variable)

\* ts_start = vypr_dt.datetime.now() and ts_end = vypr_dt.datetime.now():
\* the same text for every atom.
measurement_start_code == [t |-> "ts_start"]
measurement_end_code == [t |-> "ts_end"]

\* Instrument._generate_constraint_instrument_code: the triples (module,
\* line index, code) of one instrumentation point.
_generate_constraint_instrument_code(module_name, line_index, map_index, atom_index, subatom_index, subatom) ==
    CASE subatom.t = "ValueInConcreteState" ->
            << <<module_name, line_index + 1,
                 Code("send_measurement", map_index, atom_index, subatom_index,
                      subatom.program_variable)>> >>
      [] subatom.t = "ValueLengthInConcreteState" ->
            << <<module_name, line_index + 1,
                 Code("send_measurement_len", map_index, atom_index, subatom_index,
                      subatom.expression.program_variable)>> >>
      [] subatom.t = "DurationOfTransition" ->
            << <<module_name, line_index, measurement_start_code>>,
               <<module_name, line_index + 1, measurement_end_code>>,
               <<module_name, line_index + 1,
                 Code("duration", map_index, atom_index, subatom_index, "duration")>> >>
      [] subatom.t = "ConcreteStateBeforeTransition" ->
            << <<module_name, line_index,
                 Code("ts", map_index, atom_index, subatom_index, "ts")>> >>
      [] subatom.t = "ConcreteStateAfterTransition" ->
            << <<module_name, line_index + 1,
                 Code("ts", map_index, atom_index, subatom_index, "ts")>> >>

RECURSIVE Flatten(_)
Flatten(lists) ==
    IF lists = <<>> THEN <<>> ELSE Head(lists) \o Flatten(Tail(lists))

\* insert_instruments, the loop over self._quantifier_instrumentation_points.
QuantifierTriples(lines, self, points) ==
    Flatten([map_index \in DOMAIN points |->
        [i \in DOMAIN self.variables |->
            <<"module", lineno(lines, points[map_index][self.variables[i]]) - 1,
              _generate_quantifier_instrument_code(map_index - 1,
                                                   self.variables[i])>>]])

\* insert_instruments, the loops over self._instrumentation_tree.
ConstraintTriples(lines, atomic_constraints, tree) ==
    Flatten([map_index \in DOMAIN tree |->
        Flatten([atom_index \in DOMAIN tree[map_index] |->
            Flatten([subatom_index \in DOMAIN tree[map_index][atom_index] |->
                Flatten([n \in DOMAIN tree[map_index][atom_index][subatom_index] |->
                    _generate_constraint_instrument_code(
                        "module",
                        lineno(lines,
                               tree[map_index][atom_index][subatom_index][n]) - 1,
                        map_index - 1, atom_index - 1, subatom_index - 1,
                        get_expression(atomic_constraints[atom_index],
                                       subatom_index - 1))])])])])

\* sorted(list, key=lambda triple : triple[1]), which is stable: a triple
\* comes after those of a smaller line index and after the earlier ones of
\* its own line index.
sorted(list_of_instrument_triples) ==
    LET Before(i) ==
            { j \in DOMAIN list_of_instrument_triples :
                 \/ list_of_instrument_triples[j][2] < list_of_instrument_triples[i][2]
                 \/ /\ list_of_instrument_triples[j][2] = list_of_instrument_triples[i][2]
                    /\ j < i }
    IN  [position \in DOMAIN list_of_instrument_triples |->
            list_of_instrument_triples[
                CHOOSE i \in DOMAIN list_of_instrument_triples :
                    Cardinality(Before(i)) + 1 = position]]

reversed(list) == [i \in 1 .. Len(list) |-> list[Len(list) + 1 - i]]

\* list.insert(index, x), index from 0.
insert(list, index, x) ==
    LET i == IF index > Len(list) THEN Len(list) ELSE index
    IN  SubSeq(list, 1, i) \o <<x>> \o SubSeq(list, i + 1, Len(list))

\* for triple in list_of_instrument_triples: lines.insert(triple[1], triple[2])
\* (the set holds one element, the lines after the insert of this triple).
RECURSIVE InsertLoop(_, _, _)
InsertLoop(lines, list_of_instrument_triples, n) ==
    IF n > Len(list_of_instrument_triples) THEN lines
    ELSE CHOOSE result \in
            { InsertLoop(inserted, list_of_instrument_triples, n + 1) :
                 inserted \in { insert(lines, list_of_instrument_triples[n][2],
                                       list_of_instrument_triples[n][3]) } } : TRUE

\* The specifications instrumented: q is bound to the calls of g in f, and
\* the atoms are over q and over the next call of h or g or the next
\* change of a after it.
t_q == TransitionVariable("q")

InstrumentedAtoms ==
    { DurationAtom(t_q),
      DurationAtom(next(t_q, calls("h", "f"))),
      DurationAtom(next(t_q, calls("g", "f"))),
      ValueAtom(next(t_q, changes("a", "f"))),
      LengthAtom(next(t_q, changes("a", "f"))),
      TimeBetweenAtom(before(t_q), after(next(t_q, calls("h", "f")))) }

InstrumentedSpecifications ==
    { SpecificationOf(<< <<"q", calls("g", "f")>> >>, instance) :
         instance \in InstrumentedAtoms
            \cup { Conjunction(<<DurationAtom(t_q), other>>) :
                      other \in InstrumentedAtoms \ {DurationAtom(t_q)} }
            \cup { Conjunction(<<other, DurationAtom(t_q)>>) :
                      other \in { DurationAtom(next(t_q, calls("h", "f"))),
                                  DurationAtom(next(t_q, calls("g", "f"))) } } }

InstrumentInit ==
    /\ specification \in InstrumentedSpecifications
    /\ \E program \in InstrumentedPrograms :
          \E spans \in [DOMAIN program -> Spans] :
             /\ module_asts = [name \in {"f", "g"} |->
                                  IF name = "f" THEN program ELSE OtherFunction]
             /\ _module_to_lines = _get_lines_from_module(spans)
    /\ function_name_to_scfg_map = EmptyDict
    /\ returned = NoCall
    /\ locals = NoLocals
    /\ executed = <<>>
    /\ threads = <<>>
    /\ requests = EmptyDict
    /\ queue = <<>>
    /\ verdict_queue = <<>>
    /\ heap = <<>>
    /\ map_index_to_formula_trees = EmptyDict
    /\ new_measurement = NoEvent
    /\ monitoring_process = "running"
    /\ registered = EmptyDict
    /\ control = "idle"
    /\ now = 1
    /\ emitted = 0

\* Instrument.__init__ from the SCFGs on (the analyser's maps and tree) and
\* Instrument.insert_instruments: the triples of the quantifiers and of the
\* constraints, sorted, reversed and inserted, then the import at line 0.
\* If the analyser raises, nothing is inserted.
insert_instruments ==
    /\ Built
    /\ \E points \in { _inspect_quantifiers(function_name_to_scfg_map,
                                             specification.quantifier_pair_sequence) } :
       \E tree \in { _inspect_constraints(function_name_to_scfg_map, specification,
                                           points) } :
          /\ returned' = [op |-> IF tree.ok THEN "insert_instruments"
                                 ELSE "exception",
                          variable_to_symbolic_state_maps |-> points,
                          v |-> tree.v,
                          lines |-> _module_to_lines]
          /\ IF ~tree.ok THEN UNCHANGED _module_to_lines
             ELSE \E atomic_constraints \in
                        { get_atomic_constraints(specification.constraint) } :
                  \E triples \in
                        { QuantifierTriples(_module_to_lines, specification, points)
                            \o ConstraintTriples(_module_to_lines, atomic_constraints,
                                                 tree.v) } :
                  \E list_of_instrument_triples \in { reversed(sorted(triples)) } :
                     _module_to_lines' =
                        insert(InsertLoop(_module_to_lines,
                                          list_of_instrument_triples, 1),
                               0, ImportLine)
    /\ UNCHANGED <<module_asts, function_name_to_scfg_map, locals, executed>>
    /\ UNCHANGED monitor_vars
    /\ UNCHANGED hosting_vars

\* The rewritten module is Python: no line stands inside a statement.
Compiles(lines) ==
    \A i \in DOMAIN lines :
        (lines[i].t = "statement" /\ lines[i].part < lines[i].parts) =>
            /\ i < Len(lines)
            /\ lines[i + 1] = StatementLine(lines[i].statement, lines[i].part + 1,
                                            lines[i].parts)

Sends(code) ==
    code.t \in {"send_trigger", "send_measurement", "send_measurement_len",
                "duration", "ts"}

\* The event an instrument puts on the queue of the monitor, with the
\* duration computed from the locals of f.
EventOf(code, value) ==
    IF code.t = "send_trigger" THEN Trigger(code.map_index, code.name)
    ELSE Measurement(code.map_index, code.atom_index, code.subatom_index,
                     CASE code.t = "duration" -> locals.ts_end - locals.ts_start
                       [] code.t = "ts" -> now
                       [] OTHER -> value)

\* f runs its next line: a line of a statement (the statement takes its
\* time on its last line) or an instrument.  A duration computed from an
\* unbound ts_start or ts_end is a NameError, which ends f.
execute_line ==
    /\ returned.op = "insert_instruments"
    /\ Compiles(_module_to_lines)
    /\ Len(executed) < Len(_module_to_lines)
    /\ LET code == _module_to_lines[Len(executed) + 1]
           unbound == /\ code.t = "duration"
                      /\ 0 \in {locals.ts_start, locals.ts_end}
       IN  /\ executed' = Append(executed, now)
           /\ returned' = IF unbound THEN [returned EXCEPT !.op = "NameError"]
                          ELSE returned
           /\ locals' = CASE code.t = "ts_start" -> [locals EXCEPT !.ts_start = now]
                          [] code.t = "ts_end" -> [locals EXCEPT !.ts_end = now]
                          [] code.t = "duration" /\ ~unbound ->
                                [locals EXCEPT !.duration =
                                    locals.ts_end - locals.ts_start]
                          [] OTHER -> locals
           /\ \E value \in Values :
                 queue' = IF Sends(code) /\ ~unbound
                          THEN Append(queue, EventOf(code, value))
                          ELSE queue
           /\ emitted' = IF Sends(code) /\ ~unbound THEN emitted + 1 ELSE emitted
           /\ \E d \in Durations :
                 now' = IF code.t = "statement"
                        THEN IF code.part = code.parts THEN now + d ELSE now
                        ELSE now + 1
    /\ UNCHANGED <<specification, verdict_queue, heap, map_index_to_formula_trees,
                   new_measurement, monitoring_process, registered, control>>
    /\ UNCHANGED <<module_asts, function_name_to_scfg_map, _module_to_lines>>
    /\ UNCHANGED hosting_vars

InstrumentNext ==
    \/ get_name_to_scfg_map
    \/ insert_instruments
    \/ execute_line

InstrumentSpec == InstrumentInit /\ [][InstrumentNext]_vars

----------------------------------------------------------------------------
(* Per-request hosting (online.py 219-248): one OnlineMonitor object with  *)
(* its queue and verdict queue, and for every request of the host a        *)
(* monitoring thread made by start_monitor and ended by stop_monitor.  The *)
(* host serves requests on threads of their own, so requests may overlap.  *)
(* An event on the queue is kept with the request that put it, which the   *)
(* code does not record and only the properties read.  What a thread has   *)
(* in its map_index_to_formula_trees is kept as the list of the events it  *)
(* consumed, from which its formula trees are built.                       *)

Requests == {1, 2}

\* self.monitoring_process = None
NoThread == 0

NoRequest == [at |-> "none", thread |-> NoThread, verdicts |-> <<>>]

PutBy(request, event) == [event |-> event, request |-> request]

HostingInit ==
    /\ specification = Specification(<<"q">>, q_a_lt)
    /\ queue = <<>>
    /\ verdict_queue = <<>>
    /\ heap = <<>>
    /\ map_index_to_formula_trees = EmptyDict
    /\ new_measurement = NoEvent
    /\ monitoring_process = NoThread
    /\ registered = EmptyDict
    /\ control = "idle"
    /\ now = 1
    /\ emitted = 0
    /\ module_asts = EmptyDict
    /\ function_name_to_scfg_map = EmptyDict
    /\ returned = NoCall
    /\ _module_to_lines = EmptyDict
    /\ locals = NoLocals
    /\ executed = <<>>
    /\ threads = <<>>
    /\ requests = [request \in Requests |-> NoRequest]

HostingUnchanged ==
    /\ UNCHANGED <<specification, heap, map_index_to_formula_trees, new_measurement,
                   control, now>>
    /\ UNCHANGED analysis_vars
    /\ UNCHANGED instrument_vars

\* start_monitor, before a request: a new thread, kept in
\* self.monitoring_process.
start_monitor(request) ==
    /\ requests[request].at = "none"
    /\ threads' = Append(threads, [alive |-> TRUE, consumed |-> <<>>])
    /\ monitoring_process' = Len(threads) + 1
    /\ requests' = [requests EXCEPT ![request] =
                       [@ EXCEPT !.at = "running", !.thread = Len(threads) + 1]]
    /\ UNCHANGED <<queue, verdict_queue, registered, emitted>>
    /\ HostingUnchanged

\* g.vypr.send_trigger(0, 'q') by an instrument that runs in the request.
request_send_trigger(request) ==
    /\ requests[request].at = "running"
    /\ emitted < MaxEvents
    /\ queue' = Append(queue, PutBy(request, Trigger(0, "q")))
    /\ emitted' = emitted + 1
    /\ UNCHANGED <<verdict_queue, monitoring_process, registered, threads, requests>>
    /\ HostingUnchanged

\* g.vypr.send_measurement(0, 0, 0, measurement) by an instrument that runs
\* in the request.
request_send_measurement(request, measurement) ==
    /\ requests[request].at = "running"
    /\ emitted < MaxEvents
    /\ queue' = Append(queue, PutBy(request, Measurement(0, 0, 0, measurement)))
    /\ emitted' = emitted + 1
    /\ UNCHANGED <<verdict_queue, monitoring_process, registered, threads, requests>>
    /\ HostingUnchanged

\* stop_monitor, after the request: end_monitoring puts the stop signal,
stop_monitor_put(request) ==
    /\ requests[request].at = "running"
    /\ queue' = Append(queue, PutBy(request, StopSignal))
    /\ requests' = [requests EXCEPT ![request].at = "join"]
    /\ UNCHANGED <<verdict_queue, monitoring_process, registered, emitted, threads>>
    /\ HostingUnchanged

\* joins the thread self.monitoring_process refers to now (None has no
\* join: AttributeError),
stop_monitor_join(request) ==
    /\ requests[request].at = "join"
    /\ IF monitoring_process = NoThread
       THEN requests' = [requests EXCEPT ![request].at = "AttributeError"]
       ELSE /\ ~threads[monitoring_process].alive
            /\ requests' = [requests EXCEPT ![request].at = "clear"]
    /\ UNCHANGED <<queue, verdict_queue, monitoring_process, registered, emitted,
                   threads>>
    /\ HostingUnchanged

\* sets self.monitoring_process = None,
stop_monitor_clear(request) ==
    /\ requests[request].at = "clear"
    /\ monitoring_process' = NoThread
    /\ requests' = [requests EXCEPT ![request].at = "register"]
    /\ UNCHANGED <<queue, verdict_queue, registered, emitted, threads>>
    /\ HostingUnchanged

\* takes the verdicts from the verdict queue (register_verdicts),
stop_monitor_register(request) ==
    /\ requests[request].at = "register"
    /\ verdict_queue # <<>>
    /\ registered' = Head(verdict_queue)
    /\ verdict_queue' = Tail(verdict_queue)
    /\ requests' = [requests EXCEPT ![request].at = "get"]
    /\ UNCHANGED <<queue, monitoring_process, emitted, threads>>
    /\ HostingUnchanged

\* and writes self.get_verdicts() to the file of the request.
stop_monitor_write(request) ==
    /\ requests[request].at = "get"
    /\ requests' = [requests EXCEPT ![request] =
                       [@ EXCEPT !.at = "done", !.verdicts = registered]]
    /\ UNCHANGED <<queue, verdict_queue, monitoring_process, registered, emitted,
                   threads>>
    /\ HostingUnchanged

\* The thread has a list of formula trees for the map index: it consumed a
\* trigger with it.
HasTrees(thread, map_index) ==
    \E i \in DOMAIN threads[thread].consumed :
        /\ threads[thread].consumed[i].event.type = "trigger"
        /\ threads[thread].consumed[i].event.map_index = map_index

\* One iteration of the loop of monitoring_process_function in a thread:
\* the stop signal ends the loop and the verdicts are put; a measurement
\* for a map index without trees is a KeyError, which ends the thread.
thread_get(thread) ==
    /\ threads[thread].alive
    /\ queue # <<>>
    /\ queue' = Tail(queue)
    /\ LET new == Head(queue)
           KeyError == /\ new.event.type = "measurement"
                       /\ ~HasTrees(thread, new.event.map_index)
       IN  /\ threads' = [threads EXCEPT ![thread] =
                  [alive |-> new.event.type # "stop_signal" /\ ~KeyError,
                   consumed |-> Append(@.consumed, new)]]
           /\ verdict_queue' =
                  IF new.event.type = "stop_signal"
                  THEN Append(verdict_queue, threads[thread].consumed)
                  ELSE verdict_queue
    /\ UNCHANGED <<monitoring_process, registered, emitted, requests>>
    /\ HostingUnchanged

HostingNext ==
    \/ \E request \in Requests : start_monitor(request)
    \/ \E request \in Requests : request_send_trigger(request)
    \/ \E request \in Requests, measurement \in Values :
          request_send_measurement(request, measurement)
    \/ \E request \in Requests : stop_monitor_put(request)
    \/ \E request \in Requests : stop_monitor_join(request)
    \/ \E request \in Requests : stop_monitor_clear(request)
    \/ \E request \in Requests : stop_monitor_register(request)
    \/ \E request \in Requests : stop_monitor_write(request)
    \/ \E thread \in DOMAIN threads : thread_get(thread)

HostingSpec == HostingInit /\ [][HostingNext]_vars

----------------------------------------------------------------------------
(* C13: children and parents mirror each other.  In every SCFG built, for  *)
(* all symbolic states p and c: c is in the children of p if and only if p *)
(* is in the parents of c.                                                 *)

Mirrored(graph) ==
    \A p, c \in SymbolicStates(graph) :
        Contains(graph.children[p], c) <=> Contains(graph.parents[c], p)

C13_ParentsMirrorChildren ==
    \A name \in DOMAIN function_name_to_scfg_map :
        Mirrored(function_name_to_scfg_map[name])

\* The SCFG of f is built and has a symbolic state with two parents: the
\* entry of a loop, or the exit of a conditional.
C13_Witness ==
    /\ function_name_to_scfg_map # EmptyDict
    /\ \E c \in SymbolicStates(scfg) :
          \E p, q \in SymbolicStates(scfg) :
             p # q /\ Contains(scfg.parents[c], p) /\ Contains(scfg.parents[c], q)

----------------------------------------------------------------------------
(* Which symbolic states belong to which statement.  The symbolic states   *)
(* are numbered in the order of their creation: a statement takes the next *)
(* number, a conditional or loop the next two (entry, exit) and its blocks *)
(* those that follow.  Layout gives, for a block whose first symbolic      *)
(* state would be `first` and which hangs under `parent`: the number after *)
(* its last, the state at which the block ends (parent when it has none),  *)
(* and a record for every conditional and loop in it.                      *)

RECURSIVE Layout(_, _, _, _, _)
Layout(block, n, first, parent, constructs) ==
    IF n > Len(block) THEN [next |-> first, final |-> parent, constructs |-> constructs]
    ELSE
    LET statement == block[n]
    IN  IF statement.t \in {"Assign", "Expr"}
        THEN Layout(block, n + 1, first + 1, first, constructs)
        ELSE IF statement.t \in {"If", "For", "While"}
        THEN LET in_body == Layout(statement.body, 1, first + 2, first, {})
                 has_orelse == statement.t = "If" /\ Len(statement.orelse) # 0
                 in_orelse == IF has_orelse
                              THEN Layout(statement.orelse, 1, in_body.next, first, {})
                              ELSE [next |-> in_body.next, final |-> first, constructs |-> {}]
                 construct == [t |-> statement.t, entry |-> first, exit |-> first + 1,
                               final_body |-> in_body.final, has_orelse |-> has_orelse,
                               final_orelse |-> in_orelse.final,
                               body_states |-> (first + 2) .. (in_body.next - 1)]
             IN  Layout(block, n + 1, in_orelse.next, first + 1,
                        constructs \cup {construct} \cup in_body.constructs
                            \cup in_orelse.constructs)
        ELSE Layout(block, n + 1, first, parent, constructs)

\* The conditionals and loops of f.
Constructs == Layout(module_asts["f"], 1, 2, _root, {}).constructs

\* The symbolic states that walks of one or more child edges from the
\* states of `from` visit without leaving a state of `avoid`.
RECURSIVE Visited(_, _, _, _)
Visited(graph, from, avoid, seen) ==
    LET step == { c \in SymbolicStates(graph) :
                     \E p \in from \ avoid : Contains(graph.children[p], c) }
    IN  IF step \subseteq seen THEN seen
        ELSE Visited(graph, step \ seen, avoid, seen \cup step)

Walks(graph, s) == Visited(graph, {s}, {}, {})

----------------------------------------------------------------------------
(* C14: every path from the entry of a conditional passes its exit.  For   *)
(* every conditional of f: the state at which the body ends has the exit   *)
(* as a child; so has the state at which the orelse block ends when there  *)
(* is one, and the entry itself when there is none; and no walk from the   *)
(* entry that has not passed the exit is at a state without children or    *)
(* from which the exit cannot be reached.                                  *)

PassesExit(graph, entry, exit) ==
    \A s \in {entry} \cup Visited(graph, {entry}, {exit}, {}) :
        s # exit => /\ graph.children[s] # <<>>
                    /\ exit \in Walks(graph, s)

ConditionalClosed(graph, c) ==
    /\ graph.symbolic_states[c.entry].type = "ConditionalEntrySymbolicState"
    /\ graph.symbolic_states[c.exit].type = "ConditionalExitSymbolicState"
    /\ Contains(graph.children[c.final_body], c.exit)
    /\ c.has_orelse => Contains(graph.children[c.final_orelse], c.exit)
    /\ ~c.has_orelse => Contains(graph.children[c.entry], c.exit)
    /\ PassesExit(graph, c.entry, c.exit)

C14_ConditionalExit ==
    function_name_to_scfg_map # EmptyDict =>
        \A c \in Constructs : c.t = "If" => ConditionalClosed(scfg, c)

\* The SCFG of f is built for a program with a conditional without orelse
\* block whose body has a symbolic state, and one with an orelse block.
C14_Witness ==
    /\ function_name_to_scfg_map # EmptyDict
    /\ \E c \in Constructs : c.t = "If" /\ ~c.has_orelse /\ c.final_body # c.entry
    /\ \E c \in Constructs : c.t = "If" /\ c.has_orelse /\ c.final_orelse # c.entry

----------------------------------------------------------------------------
(* C15: a loop edges from the end of its body back to its entry and on to  *)
(* its exit.  For every for and while loop of f, the state at which the    *)
(* body ends has the entry and the exit of the loop as children; when the  *)
(* body has no symbolic state that state is the entry, which then has the  *)
(* exit and itself as children.                                            *)

LoopClosed(graph, c) ==
    /\ graph.symbolic_states[c.entry].type =
          (IF c.t = "For" THEN "ForLoopEntrySymbolicState"
           ELSE "WhileLoopEntrySymbolicState")
    /\ graph.symbolic_states[c.exit].type =
          (IF c.t = "For" THEN "ForLoopExitSymbolicState"
           ELSE "WhileLoopExitSymbolicState")
    /\ Contains(graph.children[c.final_body], c.entry)
    /\ Contains(graph.children[c.final_body], c.exit)
    /\ c.body_states = {} => c.final_body = c.entry

C15_LoopBackEdge ==
    function_name_to_scfg_map # EmptyDict =>
        \A c \in Constructs : c.t \in {"For", "While"} => LoopClosed(scfg, c)

\* The SCFG of f is built for a program with a loop whose body has no
\* symbolic state inside a loop whose body has some.
C15_Witness ==
    /\ function_name_to_scfg_map # EmptyDict
    /\ \E c \in Constructs : c.t \in {"For", "While"} /\ c.body_states = {}
    /\ \E c \in Constructs : c.t \in {"For", "While"} /\ c.final_body # c.entry

----------------------------------------------------------------------------
(* C16: a try statement has a TryEntry and a TryExit.  For every try       *)
(* statement of f the SCFG has a TryEntrySymbolicState and a               *)
(* TryExitSymbolicState, the exit is reached by walks from the entry, the  *)
(* assignments and calls of the main body and of the handlers are states   *)
(* that walks from the entry visit, and the exit has a parent for the main *)
(* body and one for every handler.                                         *)

\* The statements of a block, at every depth.
RECURSIVE StatementsOf(_)
StatementsOf(block) ==
    UNION { {block[n]} \cup
            (IF block[n].t \in {"If", "For", "While", "Try"}
             THEN StatementsOf(block[n].body) ELSE {}) \cup
            (IF block[n].t = "If" THEN StatementsOf(block[n].orelse) ELSE {}) \cup
            (IF block[n].t = "Try"
             THEN UNION { StatementsOf(block[n].handlers[h]) :
                              h \in DOMAIN block[n].handlers }
             ELSE {})
          : n \in DOMAIN block }

\* The number of assignments and calls directly in a block.
SimpleCount(block) ==
    Cardinality({ n \in DOMAIN block : block[n].t \in {"Assign", "Expr"} })

RECURSIVE HandlersCount(_, _)
HandlersCount(handlers, n) ==
    IF n > Len(handlers) THEN 0
    ELSE SimpleCount(handlers[n]) + HandlersCount(handlers, n + 1)

TryRepresented(graph, statement) ==
    \E entry, exit \in SymbolicStates(graph) :
        /\ graph.symbolic_states[entry].type = "TryEntrySymbolicState"
        /\ graph.symbolic_states[exit].type = "TryExitSymbolicState"
        /\ exit \in Walks(graph, entry)
        /\ Cardinality({ s \in Walks(graph, entry) :
                            is_statement_symbolic_state(graph.symbolic_states[s]) })
              >= SimpleCount(statement.body) + HandlersCount(statement.handlers, 1)
        /\ Len(graph.parents[exit]) >= 1 + Len(statement.handlers)

C16_TryStates ==
    function_name_to_scfg_map # EmptyDict =>
        \A statement \in StatementsOf(module_asts["f"]) :
            statement.t = "Try" => TryRepresented(scfg, statement)

----------------------------------------------------------------------------
(* C17: is_reachable_from(t, s) is true exactly when a walk of one or more *)
(* child edges from s visits t, t = s on a cycle included.                 *)

C17_Reachability ==
    returned.op = "is_reachable_from" =>
        (returned.v <=>
            returned.target_symbolic_state
                \in Walks(scfg, returned.source_symbolic_state))

\* What does hold: the answer is right for every target other than the source.
C17_ReachabilityOfOthers ==
    (returned.op = "is_reachable_from"
        /\ returned.target_symbolic_state # returned.source_symbolic_state) =>
        (returned.v <=>
            returned.target_symbolic_state
                \in Walks(scfg, returned.source_symbolic_state))

----------------------------------------------------------------------------
(* C18: get_next_symbolic_states(v, s) returns first changes of v only.    *)
(* Every symbolic state returned is a statement state whose symbols        *)
(* changed contain v, some path of child edges from s leads to it through  *)
(* states that do not change v, and no state is returned twice.            *)

\* The symbolic states whose symbols changed contain the symbol.
Changes(graph, symbol) ==
    { s \in SymbolicStates(graph) :
         /\ has_get_symbols_changed(graph.symbolic_states[s])
         /\ Contains(graph.symbolic_states[s].symbols_changed, symbol) }

\* The same, among the states of class StatementSymbolicState itself.
StatementChanges(graph, symbol) ==
    { s \in Changes(graph, symbol) :
         is_statement_symbolic_state(graph.symbolic_states[s]) }

\* The symbolic states at the end of a path from base none of whose
\* earlier states is in stops.
FirstAfter(graph, base, stops) == {base} \cup Visited(graph, {base}, stops, {})

NoStateTwice(list) ==
    \A i, j \in DOMAIN list : list[i] = list[j] => i = j

NextsAreFirst(stops) ==
    (returned.op = "get_next_symbolic_states" /\ returned.ok) =>
        /\ \A n \in DOMAIN returned.v :
              /\ returned.v[n] \in StatementChanges(scfg, returned.program_variable)
              /\ returned.v[n] \in FirstAfter(scfg, returned.base_symbolic_state, stops)
        /\ NoStateTwice(returned.v)

C18_NextResults == NextsAreFirst(Changes(scfg, returned.program_variable))

\* What does hold: no StatementSymbolicState that changes v comes earlier.
C18_NextResultsAmongStatements ==
    NextsAreFirst(StatementChanges(scfg, returned.program_variable))

----------------------------------------------------------------------------
(* C19: get_next_symbolic_states(v, s) returns, and the traversal descends *)
(* into no symbolic state more than once, back edges of loops included.    *)

C19_NextTerminates ==
    returned.op = "get_next_symbolic_states" =>
        /\ returned.ok
        /\ NoStateTwice(returned.calls)

----------------------------------------------------------------------------
(* C20: the analyser binds an inner variable to a state after the previous *)
(* one.  In every map the analyser produces, for every quantifier but the  *)
(* first: when its predicate names the function of the state of the        *)
(* previous variable, the state of the variable is in the SCFG of that     *)
(* function, its symbols changed contain the symbol and a walk of child    *)
(* edges from the previous state visits it; when it names another          *)
(* function, every state of that function whose symbols changed contain    *)
(* the symbol is bound to the variable in a map that binds the earlier     *)
(* variables alike, unless the quantifiers that follow have no state for   *)
(* it.                                                                     *)

AgreeBefore(binding, other, quantifier_pair_sequence, i) ==
    \A j \in 1 .. (i - 1) :
        other[quantifier_pair_sequence[j][1]] = binding[quantifier_pair_sequence[j][1]]

\* The states a map binds to the first i variables, in order.
ListOf(binding, quantifier_pair_sequence, i) ==
    [j \in 1 .. i |-> binding[quantifier_pair_sequence[j][1]]]

BoundAfterPrevious(map, bindings, quantifier_pair_sequence) ==
    \A n \in DOMAIN bindings : \A i \in 2 .. Len(quantifier_pair_sequence) :
        LET inner == quantifier_pair_sequence[i][2].predicate
            previous == bindings[n][quantifier_pair_sequence[i - 1][1]]
            current == bindings[n][quantifier_pair_sequence[i][1]]
        IN  IF inner.during_function = previous.function
            THEN /\ current.function = previous.function
                 /\ current.state \in Walks(map[previous.function], previous.state)
                 /\ current.state \in Changes(map[previous.function], inner.symbol)
            ELSE \A s \in Changes(map[inner.during_function], inner.symbol) :
                    \/ \E m \in DOMAIN bindings :
                          /\ AgreeBefore(bindings[n], bindings[m],
                                         quantifier_pair_sequence, i)
                          /\ bindings[m][quantifier_pair_sequence[i][1]]
                                = StateOf(inner.during_function, s)
                    \/ /\ i < Len(quantifier_pair_sequence)
                       /\ _recurse_on_quantifier(
                              map, quantifier_pair_sequence, i + 1,
                              Append(ListOf(bindings[n], quantifier_pair_sequence, i - 1),
                                     StateOf(inner.during_function, s))) = <<>>

C20_AnalyserBindings ==
    returned.op = "_inspect_quantifiers" =>
        BoundAfterPrevious(function_name_to_scfg_map, returned.v,
                           returned.quantifier_pair_sequence)

\* The analyser has produced maps for three quantifiers, the second on the
\* function of the first with a state of that function left out because no
\* walk from the first state visits it, the third on another function.
C20_Witness ==
    /\ returned.op = "_inspect_quantifiers"
    /\ Len(returned.quantifier_pair_sequence) = 3
    /\ returned.v # <<>>
    /\ LET first == returned.quantifier_pair_sequence[1][2]
           second == returned.quantifier_pair_sequence[2][2].predicate
           third == returned.quantifier_pair_sequence[3][2].predicate
       IN  /\ second.during_function = first.during_function
           /\ third.during_function # second.during_function
           /\ \E n \in DOMAIN returned.v :
                 \E s \in Changes(function_name_to_scfg_map[second.during_function],
                                  second.symbol) :
                    s \notin Walks(function_name_to_scfg_map[second.during_function],
                                   returned.v[n]["q"].state)

----------------------------------------------------------------------------
(* C21: the symbols changed of an assignment are its targets and the       *)
(* functions its value calls.  For every assignment of a function without  *)
(* conditionals and loops, the StatementSymbolicState made for it has as   *)
(* symbols changed the names assigned followed by the names of the         *)
(* functions called, and get_symbolic_states_from_symbol finds the state   *)
(* for every function called.                                              *)

StraightLine(block) ==
    \A n \in DOMAIN block : block[n].t \in {"Assign", "Expr", "Pass"}

\* The symbolic state of the n-th statement of a straight-line block.
StateOfStatement(block, n) ==
    1 + Cardinality({ m \in 1 .. n : block[m].t \in {"Assign", "Expr"} })

AssignmentSymbols(function_name) ==
    LET block == module_asts[function_name]
        graph == function_name_to_scfg_map[function_name]
    IN  StraightLine(block) =>
            \A n \in DOMAIN block :
                block[n].t = "Assign" =>
                    LET s == StateOfStatement(block, n)
                    IN  /\ graph.symbolic_states[s].type = "StatementSymbolicState"
                        /\ graph.symbolic_states[s].symbols_changed
                              = block[n].targets \o block[n].calls
                        /\ \A c \in DOMAIN block[n].calls :
                              Contains(get_symbolic_states_from_symbol(
                                           graph, block[n].calls[c]), s)

C21_AssignmentSymbols ==
    function_name_to_scfg_map # EmptyDict =>
        \A function_name \in DOMAIN module_asts : AssignmentSymbols(function_name)

----------------------------------------------------------------------------
(* C22: get_function_names_used returns the function of every predicate.   *)
(* The names returned are the during-functions of the predicates of all    *)
(* quantifiers and of every next operator in every expression of every     *)
(* atom of the constraint, at every level of a chain and in both operands  *)
(* of a mixed atom.                                                        *)

\* The predicates of the next operators of an expression.
RECURSIVE PredicatesOf(_)
PredicatesOf(obj) ==
    IF obj.t \in {"ConcreteStateVariable", "TransitionVariable"} THEN {}
    ELSE IF obj.t = "TimeBetween" THEN PredicatesOf(obj.lhs) \cup PredicatesOf(obj.rhs)
    ELSE IF obj.t = "atom"
    THEN UNION { PredicatesOf(obj.x[n]) : n \in DOMAIN obj.x }
    ELSE IF obj.t \in {"Conjunction", "Disjunction", "Negation"}
    THEN UNION { PredicatesOf(obj.ops[n]) : n \in DOMAIN obj.ops }
    ELSE (IF IsNext(obj) THEN {obj.predicate} ELSE {}) \cup PredicatesOf(obj.expression)

QuantifierPredicates(quantifier_pair_sequence) ==
    { IF quantifier_pair_sequence[i][2].type = "future"
      THEN quantifier_pair_sequence[i][2].predicate
      ELSE quantifier_pair_sequence[i][2] : i \in DOMAIN quantifier_pair_sequence }

FunctionNamesOf(self) ==
    { p.during_function :
         p \in QuantifierPredicates(self.quantifier_pair_sequence)
                  \cup PredicatesOf(self.constraint) }

C22_FunctionNamesUsed ==
    returned.op = "get_function_names_used" =>
        returned.v = FunctionNamesOf(specification)

----------------------------------------------------------------------------
(* C23: atom indices follow source order.  The list of atoms that          *)
(* get_atomic_constraints returns, whose positions are the atom indices of *)
(* the instrumentation tree, of the measurement events and of the formula  *)
(* trees, holds the atoms in their left-to-right order in the formula.     *)

\* The atoms of a formula from left to right.
RECURSIVE LeftToRight(_)
RECURSIVE LeftToRightOfAll(_, _)
LeftToRightOfAll(ops, n) ==
    IF n > Len(ops) THEN <<>>
    ELSE LeftToRight(ops[n]) \o LeftToRightOfAll(ops, n + 1)
LeftToRight(formula) ==
    IF formula.t = "atom" THEN <<formula>> ELSE LeftToRightOfAll(formula.ops, 1)

C23_AtomIndexSourceOrder ==
    returned.op = "get_atomic_constraints" =>
        returned.v = LeftToRight(specification.constraint)

----------------------------------------------------------------------------
(* C27: get_atomic_constraints returns the atoms in the exact reverse of   *)
(* their left-to-right order in the formula, for every nesting of          *)
(* conjunctions, disjunctions and negations.                               *)

Reversed(list) == [n \in 1 .. Len(list) |-> list[Len(list) + 1 - n]]

C27_AtomsReversed ==
    returned.op = "get_atomic_constraints" =>
        returned.v = Reversed(LeftToRight(specification.constraint))

\* The atoms of a formula with a conjunction or disjunction inside another
\* have been listed, and the formula has three atoms or more.
C27_Witness ==
    /\ returned.op = "get_atomic_constraints"
    /\ Len(returned.v) >= 3
    /\ specification.constraint.t \in {"Conjunction", "Disjunction"}
    /\ \E n \in DOMAIN specification.constraint.ops :
          specification.constraint.ops[n].t \in {"Conjunction", "Disjunction"}
    /\ returned.v # LeftToRight(specification.constraint)

----------------------------------------------------------------------------
(* C26: a ForLoopEntry counts as a statement for get_next_symbolic_states. *)
(* When a path of child edges from s leads to the entry of a for loop      *)
(* whose loop counters contain v through states that do not change v, the  *)
(* call returns that entry, and every state returned is one that           *)
(* get_symbolic_states_from_symbol(v) returns and that is first on such a  *)
(* path.                                                                   *)

ForLoopEntries(graph, symbol) ==
    { s \in Changes(graph, symbol) :
         graph.symbolic_states[s].type = "ForLoopEntrySymbolicState" }

C26_ForLoopEntryIsNext ==
    (returned.op = "get_next_symbolic_states" /\ returned.ok) =>
        LET v == returned.program_variable
            first == FirstAfter(scfg, returned.base_symbolic_state, Changes(scfg, v))
        IN  /\ \A e \in ForLoopEntries(scfg, v) \cap first : Contains(returned.v, e)
            /\ \A n \in DOMAIN returned.v :
                  /\ Contains(get_symbolic_states_from_symbol(scfg, v), returned.v[n])
                  /\ returned.v[n] \in first

----------------------------------------------------------------------------
(* C28: an entry of the instrumentation point tree lists no symbolic state *)
(* twice.  For every map of the analyser, every atom and every subatom,    *)
(* the list of symbolic states has no state at two positions, also when    *)
(* the expression has several temporal operators.                          *)

C28_NoStateListedTwice ==
    (returned.op = "_inspect_constraints" /\ returned.ok) =>
        \A map_index \in DOMAIN returned.v :
            \A atomic_constraint_index \in DOMAIN returned.v[map_index] :
                \A subatom_index \in DOMAIN returned.v[map_index][atomic_constraint_index] :
                    NoStateTwice(
                        returned.v[map_index][atomic_constraint_index][subatom_index])

----------------------------------------------------------------------------
(* C29: for x.next(P1).next(P2) the states listed are those of P2.  For    *)
(* every atom over an expression with two next operators, every symbolic   *)
(* state listed for the subatom is a state of the function of P2, the      *)
(* predicate of the outermost operator, whose symbols changed contain the  *)
(* symbol of P2.                                                           *)

\* The atoms over an expression with two next operators, by position in
\* the list of atoms of the specification analysed.
ChainedAtoms ==
    LET atomic_constraints == get_atomic_constraints(returned.specification.constraint)
    IN  { n \in DOMAIN atomic_constraints :
             /\ is_normal_atom(atomic_constraints[n])
             /\ LET sequence == _derive_sequence_of_temporal_operators(atomic_constraints[n])
                IN  Len(sequence) = 3 /\ IsNext(sequence[1]) /\ IsNext(sequence[2]) }

OutermostPredicate(atomic_constraint) ==
    _derive_sequence_of_temporal_operators(atomic_constraint)[1].predicate

C29_ChainAppliedInOrder ==
    (returned.op = "_inspect_constraints" /\ returned.ok) =>
        \A map_index \in DOMAIN returned.v : \A n \in ChainedAtoms :
            LET outermost ==
                    OutermostPredicate(
                        get_atomic_constraints(returned.specification.constraint)[n])
                listed == returned.v[map_index][n][1]
            IN  \A k \in DOMAIN listed :
                    /\ listed[k].function = outermost.during_function
                    /\ listed[k].state
                          \in Changes(function_name_to_scfg_map[outermost.during_function],
                                      outermost.symbol)

----------------------------------------------------------------------------
(* C24.  For every duration subatom of the instrumentation tree and every  *)
(* statement listed for it, the rewritten lines of the module have a       *)
(* start-timestamp capture before the first line of the statement, with no *)
(* other statement in between, and after the last line of the statement,   *)
(* with no other statement in between, the end-timestamp capture followed  *)
(* directly by the line that computes the difference and emits it for that *)
(* atom; and once f has run that line, the start capture ran before the    *)
(* end capture and the end capture before the emit.                        *)

FirstLine(lines, statement) ==
    CHOOSE i \in DOMAIN lines :
        lines[i].t = "statement" /\ lines[i].statement = statement
            /\ lines[i].part = 1

LastLine(lines, statement) ==
    CHOOSE i \in DOMAIN lines :
        lines[i].t = "statement" /\ lines[i].statement = statement
            /\ lines[i].part = lines[i].parts

NoStatementBetween(lines, i, j) ==
    \A k \in (i + 1) .. (j - 1) : lines[k].t # "statement"

\* The (map index, atom index, subatom index, n) of the tree whose subatom
\* is a duration, with the indices of the model, from 1.
DurationPoints ==
    LET atomic_constraints == get_atomic_constraints(specification.constraint)
    IN  { point \in UNION { UNION { UNION {
              { <<map_index, atom_index, subatom_index, n>> :
                   n \in DOMAIN returned.v[map_index][atom_index][subatom_index] }
              : subatom_index \in DOMAIN returned.v[map_index][atom_index] }
              : atom_index \in DOMAIN returned.v[map_index] }
              : map_index \in DOMAIN returned.v } :
            get_expression(atomic_constraints[point[2]], point[3] - 1).t
                = "DurationOfTransition" }

StatementAt(point) ==
    returned.v[point[1]][point[2]][point[3]][point[4]].state - 1

DurationCode(point) ==
    Code("duration", point[1] - 1, point[2] - 1, point[3] - 1, "duration")

DurationPlaced(lines, point) ==
    \E p1, p2 \in DOMAIN lines :
        /\ lines[p1] = measurement_start_code
        /\ p1 < FirstLine(lines, StatementAt(point))
        /\ NoStatementBetween(lines, p1, FirstLine(lines, StatementAt(point)))
        /\ lines[p2] = measurement_end_code
        /\ LastLine(lines, StatementAt(point)) < p2
        /\ NoStatementBetween(lines, LastLine(lines, StatementAt(point)), p2)
        /\ p2 < Len(lines)
        /\ lines[p2 + 1] = DurationCode(point)
        /\ Len(executed) >= p2 + 1 =>
              executed[p1] < executed[p2] /\ executed[p2] < executed[p2 + 1]

C24_DurationInstrumentsAroundStatement ==
    returned.op \in {"insert_instruments", "NameError"} =>
        \A point \in DurationPoints : DurationPlaced(_module_to_lines, point)

----------------------------------------------------------------------------
(* C25.  When f has run the line that computes and emits the duration of a *)
(* duration subatom, the measurement put on the queue is the difference    *)
(* between the time of an end capture placed after a statement listed for  *)
(* the subatom, with no other statement in between, and the time of a      *)
(* start capture placed before that statement, with no other statement in  *)
(* between: no instrument of another atom, binding or statement has        *)
(* overwritten ts_start or ts_end with a time taken elsewhere.             *)

\* The event put on the queue by the sending line at position p.
SentBy(lines, p) == queue[Cardinality({ i \in 1 .. p : Sends(lines[i]) })]

MeasuredAround(lines, p, statement) ==
    \E p1, p2 \in 1 .. (p - 1) :
        /\ lines[p1] = measurement_start_code
        /\ p1 < FirstLine(lines, statement)
        /\ NoStatementBetween(lines, p1, FirstLine(lines, statement))
        /\ lines[p2] = measurement_end_code
        /\ LastLine(lines, statement) < p2
        /\ NoStatementBetween(lines, LastLine(lines, statement), p2)
        /\ SentBy(lines, p).measurement = executed[p2] - executed[p1]

C25_DurationIsOfTheStatement ==
    returned.op = "insert_instruments" =>
        \A p \in 1 .. Len(executed) :
            _module_to_lines[p].t = "duration" =>
                \E point \in DurationPoints :
                    /\ DurationCode(point) = _module_to_lines[p]
                    /\ MeasuredAround(_module_to_lines, p, StatementAt(point))

----------------------------------------------------------------------------
(* C30.  In per-request hosting, when a request has written its verdicts,  *)
(* they were built only from events put during that request, the           *)
(* monitoring thread started for the request has consumed no event put by  *)
(* another request (one that overlaps, or one left on the queue by an      *)
(* earlier request), and it has consumed the stop signal of the request.   *)

OnlyOf(request, events) ==
    \A i \in DOMAIN events : events[i].request = request

C30_RequestIsolation ==
    \A request \in Requests :
        requests[request].at = "done" =>
            /\ OnlyOf(request, requests[request].verdicts)
            /\ OnlyOf(request, threads[requests[request].thread].consumed)
            /\ \E i \in DOMAIN threads[requests[request].thread].consumed :
                  threads[requests[request].thread].consumed[i]
                      = PutBy(request, StopSignal)

====
